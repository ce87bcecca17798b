---------------------------- MODULE LoadBalancer ----------------------------
(***************************************************************************)
(* The reverse proxy before a cluster: pkg/revproxy, LoadBalancer (lb.go)  *)
(* and Upstream (upstream.go).                                             *)
(*                                                                         *)
(* Every request is a goroutine of the http server.  A retry is a nested   *)
(* call: Upstream.ServeHTTP -> ErrorHandler -> LoadBalancer.ServeHTTP ->   *)
(* the next Upstream.ServeHTTP, so a request keeps its connection counted  *)
(* at every upstream that failed it until the last call returns.           *)
(* Upstreams are added and removed by the processes of the cluster.        *)
(***************************************************************************)
EXTENDS Integers, Sequences, FiniteSets

CONSTANTS Upstreams,  \* the upstreams the processes may register
          Requests,   \* the requests
          Ips,        \* the clients' addresses
          IpOf,       \* getClientIp of each request
          HashOf,     \* fastHash of each address
          Methods,    \* the values of Options.Method
          RetryMaxes, \* the values of Options.RetryMax
          NoUpstream  \* a nil *Upstream

ASSUME IpAssumption == IpOf \in [Requests -> Ips]
\* fastHash converts 32 unsigned bits to an int, which has 64.
ASSUME HashAssumption == HashOf \in [Ips -> Nat]
ASSUME RetryMaxAssumption == RetryMaxes \subseteq Int
ASSUME MethodsAssumption == Methods \subseteq {"conn", "random", "hash"}
ASSUME NoUpstreamAssumption == NoUpstream \notin Upstreams

VARIABLES opt,      \* the options; they never change
          list,     \* lb.Upstreams
          fresh,    \* the upstreams that have not been added yet
          session,  \* lb.sessions: the upstream of each address's session
          pc,       \* where the innermost ServeHTTP of a request is
          us,       \* Next's result so far
          seen,     \* what Next's deferred function loaded from the session
          idx,      \* where MinBy is in the list
          prev,     \* requestContext.Previous
          retries,  \* requestContext.RetryCount
          held,     \* the upstreams that count the request, outermost first
          gone,     \* whether the client of the request has gone away
          sole      \* auxiliary: only one upstream was listed at the choice

call == <<us, seen, idx>>
request == <<prev, retries, held, gone>>
vars == <<opt, list, fresh, session, pc, call, request, sole>>

PCs == {"idle", "session", "clear", "pick", "scan", "settle", "swap", "enter",
        "forward", "backoff", "leave", "ended"}

MaybeUpstream == Upstreams \cup {NoUpstream}

\* The first attempt and one for each retry; RetryCount has been incremented
\* when it is compared, so there are fewer than RetryMax retries.
MaxAttempts == IF opt.retryMax > 1 THEN opt.retryMax ELSE 1

TypeOK ==
    /\ opt \in [sticky : BOOLEAN, method : Methods, retryMax : RetryMaxes]
    /\ list \in Seq(Upstreams)
    /\ fresh \subseteq Upstreams
    /\ session \in [Ips -> MaybeUpstream]
    /\ pc \in [Requests -> PCs]
    /\ us \in [Requests -> MaybeUpstream]
    /\ seen \in [Requests -> MaybeUpstream]
    /\ idx \in [Requests -> Nat]
    /\ prev \in [Requests -> MaybeUpstream]
    /\ retries \in [Requests -> 0..MaxAttempts]
    /\ held \in [Requests -> Seq(Upstreams)]
    /\ gone \in [Requests -> BOOLEAN]
    /\ sole \in [Requests -> BOOLEAN]

Init ==
    /\ opt \in [sticky : BOOLEAN, method : Methods, retryMax : RetryMaxes]
    /\ list = <<>> /\ fresh = Upstreams
    /\ session = [ip \in Ips |-> NoUpstream]
    /\ pc = [r \in Requests |-> "idle"]
    /\ us = [r \in Requests |-> NoUpstream]
    /\ seen = [r \in Requests |-> NoUpstream]
    /\ idx = [r \in Requests |-> 0]
    /\ prev = [r \in Requests |-> NoUpstream]
    /\ retries = [r \in Requests |-> 0]
    /\ held = [r \in Requests |-> <<>>]
    /\ gone = [r \in Requests |-> FALSE]
    /\ sole = [r \in Requests |-> FALSE]

Goto(r, l) == pc' = [pc EXCEPT ![r] = l]

-----------------------------------------------------------------------------
(* The list of upstreams *)

\* MinBy walks the list under the read lock, which keeps writers out.
ListLocked == \E r \in Requests : pc[r] = "scan"

AddUpstream(u) ==
    /\ u \in fresh /\ ~ListLocked
    /\ list' = Append(list, u)
    /\ fresh' = fresh \ {u}
    /\ UNCHANGED <<opt, session, pc, call, request, sole>>

Without(i) == [j \in 1..(Len(list) - 1) |-> IF j < i THEN list[j] ELSE list[j + 1]]

\* lo.Without; no upstream is listed twice.  The walk over the sessions deletes
\* none: it compares their values, which are *ClientSession, with an *Upstream.
RemoveUpstream(u) ==
    /\ ~ListLocked
    /\ \E i \in 1..Len(list) : list[i] = u /\ list' = Without(i)
    /\ UNCHANGED <<opt, fresh, session, pc, call, request, sole>>

-----------------------------------------------------------------------------
(* LoadBalancer.Next.  A session is created with no upstream by whoever     *)
(* asks first (LoadOrStore), hence a missing session is an empty one.       *)

FirstStep == IF opt.sticky THEN "session" ELSE "pick"

\* Next returns u: a sticky balancer's deferred function runs after the lock
\* has been released, and not at all for nil.
Result(r, u) ==
    /\ us' = [us EXCEPT ![r] = u]
    /\ Goto(r, CASE u = NoUpstream -> "leave"
                 [] u # NoUpstream /\ opt.sticky -> "settle"
                 [] OTHER -> "enter")

\* The sticky session first, unless it is the upstream that has just failed.
TrySession(r) ==
    /\ pc[r] = "session"
    /\ LET u == session[IpOf[r]] IN
       IF u \in {NoUpstream, prev[r]}
       THEN /\ Goto(r, IF u = NoUpstream THEN "pick" ELSE "clear")
            /\ UNCHANGED us
       ELSE Result(r, u)
    /\ UNCHANGED <<opt, list, fresh, session, seen, idx, request, sole>>

\* session.upstream.CompareAndSwap(retry, nil)
ClearSession(r) ==
    /\ pc[r] = "clear"
    /\ session' = IF session[IpOf[r]] = prev[r]
                  THEN [session EXCEPT ![IpOf[r]] = NoUpstream] ELSE session
    /\ Goto(r, "pick")
    /\ UNCHANGED <<opt, list, fresh, call, request, sole>>

\* Where methods hash and random begin.
Starts(r) ==
    IF opt.method = "hash" THEN {HashOf[IpOf[r]] % Len(list)} ELSE 0..(Len(list) - 1)

Rotated(n) == list[(n % Len(list)) + 1]

\* The first upstream from n on that has not just failed the request; no
\* upstream is listed twice.
Rotate(r, n) ==
    IF Rotated(n) # prev[r] THEN Rotated(n) ELSE Rotated(n + 1)

\* The read lock is held from here to the choice.
Pick(r) ==
    /\ pc[r] = "pick"
    /\ sole' = [sole EXCEPT ![r] = Len(list) = 1]
    /\ \/ Len(list) = 0 /\ Result(r, NoUpstream) /\ UNCHANGED idx
       \/ Len(list) = 1 /\ Result(r, list[1]) /\ UNCHANGED idx
       \/ /\ Len(list) > 1 /\ opt.method = "conn"
          /\ us' = [us EXCEPT ![r] = list[1]]
          /\ idx' = [idx EXCEPT ![r] = 2]
          /\ Goto(r, "scan")
       \/ /\ Len(list) > 1 /\ opt.method # "conn"
          /\ \E n \in Starts(r) : Result(r, Rotate(r, n))
          /\ UNCHANGED idx
    /\ UNCHANGED <<opt, list, fresh, session, seen, request>>

\* numConnections: every call of Upstream.ServeHTTP that has not returned.
Connections(u) ==
    Cardinality({at \in Requests \X (1..MaxAttempts) :
        at[2] <= Len(held[at[1]]) /\ held[at[1]][at[2]] = u})

\* MinBy's comparison of an item with the least so far.
Less(r, item, least) ==
    /\ item # prev[r]
    /\ least = prev[r] \/ Connections(item) < Connections(least)

\* One round of MinBy; the counters move between the rounds.  The last round
\* is followed by the test for the upstream that has failed.
Scan(r) ==
    /\ pc[r] = "scan"
    /\ LET item == list[idx[r]]
           least == IF Less(r, item, us[r]) THEN item ELSE us[r] IN
       /\ idx' = [idx EXCEPT ![r] = idx[r] + 1]
       /\ IF idx[r] < Len(list)
          THEN us' = [us EXCEPT ![r] = least] /\ UNCHANGED pc
          ELSE Result(r, IF least = prev[r] THEN NoUpstream ELSE least)
    /\ UNCHANGED <<opt, list, fresh, session, seen, request, sole>>

\* Faulty variant: the deferred function follows whatever the session says.
SettleAnyhow(r) ==
    /\ pc[r] = "settle"
    /\ LET v == session[IpOf[r]] IN
       IF v # NoUpstream
       THEN us' = [us EXCEPT ![r] = v] /\ Goto(r, "enter") /\ UNCHANGED seen
       ELSE seen' = [seen EXCEPT ![r] = v] /\ Goto(r, "swap") /\ UNCHANGED us
    /\ UNCHANGED <<opt, list, fresh, session, idx, request, sole>>

\* The deferred function: the session's upstream has precedence over ours.
Settle(r) ==
    /\ pc[r] = "settle"
    /\ LET v == session[IpOf[r]] IN
       IF v \notin {NoUpstream, prev[r]}
       THEN us' = [us EXCEPT ![r] = v] /\ Goto(r, "enter") /\ UNCHANGED seen
       ELSE seen' = [seen EXCEPT ![r] = v] /\ Goto(r, "swap") /\ UNCHANGED us
    /\ UNCHANGED <<opt, list, fresh, session, idx, request, sole>>

\* Faulty variant: a store instead of a compare and swap.
SwapStores(r) ==
    /\ pc[r] = "swap"
    /\ session' = [session EXCEPT ![IpOf[r]] = us[r]]
    /\ Goto(r, "enter")
    /\ UNCHANGED <<opt, list, fresh, call, request, sole>>

\* Faulty variant: the loop does not load the session again.
SwapSpins(r) ==
    /\ pc[r] = "swap"
    /\ session' = IF session[IpOf[r]] = seen[r]
                  THEN [session EXCEPT ![IpOf[r]] = us[r]] ELSE session
    /\ Goto(r, IF session[IpOf[r]] = seen[r] THEN "enter" ELSE "swap")
    /\ UNCHANGED <<opt, list, fresh, call, request, sole>>

\* session.upstream.CompareAndSwap(v, us), from the start when it fails.
Swap(r) ==
    /\ pc[r] = "swap"
    /\ session' = IF session[IpOf[r]] = seen[r]
                  THEN [session EXCEPT ![IpOf[r]] = us[r]] ELSE session
    /\ Goto(r, IF session[IpOf[r]] = seen[r] THEN "enter" ELSE "settle")
    /\ UNCHANGED <<opt, list, fresh, call, request, sole>>

-----------------------------------------------------------------------------
(* A request: LoadBalancer.ServeHTTP, Upstream.ServeHTTP and ErrorHandler   *)

Arrive(r) ==
    /\ pc[r] = "idle"
    /\ Goto(r, FirstStep)
    /\ UNCHANGED <<opt, list, fresh, session, call, request, sole>>

ClientGoes(r) ==
    /\ pc[r] \notin {"idle", "ended"} /\ ~gone[r]
    /\ gone' = [gone EXCEPT ![r] = TRUE]
    /\ UNCHANGED <<opt, list, fresh, session, pc, call, prev, retries, held, sole>>

\* The upstream is remembered as the previous one and counts the request;
\* what is left of Next's locals is of no further use.
Enter(r) ==
    /\ pc[r] = "enter"
    /\ prev' = [prev EXCEPT ![r] = us[r]]
    /\ held' = [held EXCEPT ![r] = Append(@, us[r])]
    /\ us' = [us EXCEPT ![r] = NoUpstream]
    /\ seen' = [seen EXCEPT ![r] = NoUpstream]
    /\ idx' = [idx EXCEPT ![r] = 0]
    /\ sole' = [sole EXCEPT ![r] = FALSE]
    /\ Goto(r, "forward")
    /\ UNCHANGED <<opt, list, fresh, session, retries, gone>>

\* The upstream answers, or the client is gone, which the proxy notices even
\* when the upstream does not answer.
ForwardEnds(r) ==
    /\ pc[r] = "forward"
    /\ Goto(r, "leave")
    /\ UNCHANGED <<opt, list, fresh, session, call, request, sole>>

\* ErrorHandler, for a client that is still there: the backoff begins.
ForwardFails(r) ==
    /\ pc[r] = "forward" /\ ~gone[r]
    /\ Goto(r, "backoff")
    /\ UNCHANGED <<opt, list, fresh, session, call, request, sole>>

\* After the backoff ServeHTTP is called again, which compares the limit.
Retry(r) ==
    /\ pc[r] = "backoff"
    /\ retries' = [retries EXCEPT ![r] = @ + 1]
    /\ Goto(r, IF retries'[r] >= opt.retryMax THEN "leave" ELSE FirstStep)
    /\ UNCHANGED <<opt, list, fresh, session, call, prev, held, gone, sole>>

\* The client leaves during the backoff.
BackoffEnds(r) ==
    /\ pc[r] = "backoff" /\ gone[r]
    /\ Goto(r, "leave")
    /\ UNCHANGED <<opt, list, fresh, session, call, request, sole>>

\* The calls return one by one, each giving its connection back.
Leave(r) ==
    /\ pc[r] = "leave"
    /\ IF held[r] = <<>>
       THEN Goto(r, "ended") /\ UNCHANGED held
       ELSE held' = [held EXCEPT ![r] = SubSeq(@, 1, Len(@) - 1)] /\ UNCHANGED pc
    /\ UNCHANGED <<opt, list, fresh, session, call, prev, retries, gone, sole>>

-----------------------------------------------------------------------------
Proceed(r) ==
    \/ TrySession(r) \/ ClearSession(r) \/ Pick(r) \/ Scan(r) \/ Settle(r)
    \/ Swap(r) \/ Enter(r) \/ Retry(r) \/ BackoffEnds(r) \/ Leave(r)

Next ==
    \/ \E u \in Upstreams : AddUpstream(u) \/ RemoveUpstream(u)
    \/ \E r \in Requests :
          Arrive(r) \/ ClientGoes(r) \/ Proceed(r) \/ ForwardEnds(r) \/ ForwardFails(r)

(***************************************************************************)
(* A request's goroutine runs when it can.  An upstream may never answer;  *)
(* the proxy gives up on it only once the client has gone.                 *)
(***************************************************************************)
Fairness ==
    \A r \in Requests : WF_vars(Proceed(r)) /\ WF_vars(gone[r] /\ ForwardEnds(r))

Spec == Init /\ [][Next]_vars /\ Fairness

-----------------------------------------------------------------------------
\* RetryCount bounds the attempts of a request, and with them the connections
\* that it keeps counted: a request is tried once, and fewer than RetryMax
\* times again (lb.go:169, upstream.go:49).
RetriesBounded ==
    \A r \in Requests : Len(held[r]) <= MaxAttempts /\ Len(held[r]) <= retries[r] + 1

\* A retry goes to another upstream than the one that has just failed, by any
\* method and whatever concurrent requests of the same client have put into
\* the session meanwhile, unless it was the only one listed (lb.go:76-163).
RetryMoves ==
    \A r \in Requests :
        pc[r] = "enter" /\ prev[r] # NoUpstream /\ us[r] = prev[r] => sole[r]

\* Retries are few, and each of them goes on.
RetriesAreRight == RetriesBounded /\ RetryMoves

Retried(r) == retries[r] > 0

\* Options.Sticky, "the same upstream is chosen for the same client if
\* possible" (lb.go:27): as long as no request of a client has been retried,
\* all of them, concurrent first ones included, go to one upstream.
StickyAgrees ==
    opt.sticky =>
        \A r1, r2 \in Requests :
            \/ IpOf[r1] # IpOf[r2]
            \/ \E r \in Requests : IpOf[r] = IpOf[r1] /\ Retried(r)
            \/ NoUpstream \in {prev[r1], prev[r2]}
            \/ prev[r1] = prev[r2]

\* A request that no upstream leaves waiting for ever ends, through every
\* retry and the loop of the deferred function; and a request whose client is
\* gone ends even so (lb.go:93-103, upstream.go:39-55).
RequestsEndProxy ==
    \A r \in Requests :
        /\ []<>(pc[r] # "forward") => (pc[r] # "idle" ~> pc[r] = "ended")
        /\ gone[r] ~> pc[r] = "ended"
=============================================================================

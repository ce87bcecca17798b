------------------------- MODULE LoadBalancerProofs -------------------------
(***************************************************************************)
(* What is proved of the load balancer for any upstreams, any requests of  *)
(* any clients, any hash and any options.  A request in the middle of Next *)
(* knows of itself what its program counter says (Local); the list names   *)
(* no upstream twice (Listing); and while no request of a client has been  *)
(* retried, whoever of its requests has come past the deferred function    *)
(* agrees with the session (Agreement).                                    *)
(***************************************************************************)
EXTENDS LoadBalancer, TLAPS

Choosing == {"idle", "session", "clear", "pick", "scan", "settle", "swap", "enter"}
Chosen == {"settle", "swap", "enter"}

Listing ==
    /\ \A i, j \in 1..Len(list) : list[i] = list[j] => i = j
    /\ \A i \in 1..Len(list) : list[i] \notin fresh

Local(r) ==
    /\ pc[r] = "scan" => idx[r] \in 2..Len(list)
    /\ pc[r] \in Chosen \cup {"scan"} => us[r] \in Upstreams
    /\ pc[r] \in Chosen /\ prev[r] # NoUpstream /\ us[r] = prev[r] => sole[r]
    /\ pc[r] \notin {"leave", "ended"} => retries[r] < MaxAttempts
    /\ Len(held[r]) <= MaxAttempts /\ Len(held[r]) <= retries[r] + 1
    /\ pc[r] \in Choosing => Len(held[r]) <= retries[r]
    /\ pc[r] \in Choosing /\ retries[r] = 0 => prev[r] = NoUpstream
    /\ pc[r] = "clear" => prev[r] # NoUpstream
    /\ pc[r] = "swap" => seen[r] \in {NoUpstream, prev[r]}

\* No request of the client of r has been retried.
Calm(r) == \A q \in Requests : IpOf[q] = IpOf[r] => retries[q] = 0

Agrees(r) ==
    /\ prev[r] # NoUpstream => session[IpOf[r]] = prev[r]
    /\ pc[r] = "enter" => session[IpOf[r]] = us[r]

Agreement == opt.sticky => \A r \in Requests : Calm(r) => Agrees(r)

IInv ==
    /\ TypeOK
    /\ Listing
    /\ \A r \in Requests : Local(r)
    /\ Agreement

-----------------------------------------------------------------------------
(* Lemmas *)

\* Every request is tried once, whatever the option says (lb.go:168-173).
LEMMA Attempts ==
    ASSUME opt \in [sticky : BOOLEAN, method : Methods, retryMax : RetryMaxes]
    PROVE  MaxAttempts \in Nat \ {0} /\ opt.retryMax \in Int
<1>1. opt.retryMax \in RetryMaxes
  OBVIOUS
<1>2. opt.retryMax \in Int
  BY <1>1, RetryMaxAssumption
<1>3. QED
  BY <1>2 DEF MaxAttempts

\* The balancer starts in the invariant (lb.go:53-57).
LEMMA InitInv == Init => IInv
<1> SUFFICES ASSUME Init PROVE IInv
  OBVIOUS
<1>1. opt \in [sticky : BOOLEAN, method : Methods, retryMax : RetryMaxes]
  BY DEF Init
<1>2. MaxAttempts \in Nat \ {0}
  BY <1>1, Attempts
<1>3. TypeOK
  BY <1>1, <1>2 DEF Init, TypeOK, PCs, MaybeUpstream
<1>4. Listing
  BY DEF Init, Listing
<1>5. \A r \in Requests : Local(r)
  BY <1>2 DEF Init, Local, Choosing, Chosen
<1>6. Agreement
  BY DEF Init, Agreement, Agrees
<1>7. QED
  BY <1>3, <1>4, <1>5, <1>6 DEF IInv

\* A step of request q leaves the other requests and the list alone.
Own(f, q) == \A r \in Requests \ {q} : f'[r] = f[r]
Frame(q) ==
    /\ UNCHANGED <<opt, list, fresh>>
    /\ Own(pc, q) /\ Own(us, q) /\ Own(seen, q) /\ Own(idx, q) /\ Own(prev, q)
    /\ Own(retries, q) /\ Own(held, q) /\ Own(sole, q)

\* What is left to show of a step of request q.
LEMMA StepOf ==
    ASSUME IInv, NEW q \in Requests, Frame(q), TypeOK', Local(q)', Agreement'
    PROVE  IInv'
<1>1. Listing'
  BY DEF IInv, Listing, Frame
<1>2. MaxAttempts' = MaxAttempts
  BY DEF Frame, MaxAttempts
<1>3. ASSUME NEW r \in Requests, r # q PROVE Local(r)'
  <2>1. Local(r)
    BY DEF IInv
  <2>2. /\ pc'[r] = pc[r] /\ us'[r] = us[r] /\ seen'[r] = seen[r] /\ idx'[r] = idx[r]
        /\ prev'[r] = prev[r] /\ retries'[r] = retries[r] /\ held'[r] = held[r]
        /\ sole'[r] = sole[r] /\ list' = list
    BY <1>3 DEF Frame, Own
  <2>3. QED
    BY <1>2, <2>1, <2>2 DEF Local
<1>4. QED
  BY <1>1, <1>3 DEF IInv

\* The agreement is kept by a step that changes neither the session nor what
\* the request has chosen, and forgets no retry.
LEMMA AgreementKept ==
    ASSUME IInv, NEW q \in Requests, Frame(q), TypeOK', session' = session,
           prev'[q] = prev[q], retries'[q] >= retries[q],
           opt.sticky /\ pc'[q] = "enter" => pc[q] = "enter" /\ us'[q] = us[q]
    PROVE  Agreement'
<1> SUFFICES ASSUME opt.sticky, NEW r \in Requests, Calm(r)' PROVE Agrees(r)'
  BY DEF Agreement, Frame
<1>1. Calm(r)
  BY DEF Calm, Frame, Own, IInv, TypeOK
<1>2. Agrees(r)
  BY <1>1 DEF IInv, Agreement
<1>3. CASE r = q
  BY <1>2, <1>3 DEF Agrees
<1>4. CASE r # q
  BY <1>2, <1>4 DEF Agrees, Frame, Own
<1>5. QED
  BY <1>3, <1>4

-----------------------------------------------------------------------------
(* Steps *)

\* An upstream is listed that was not (lb.go:59-63).
LEMMA AddStep == \A u \in Upstreams : IInv /\ AddUpstream(u) => IInv'
<1> SUFFICES ASSUME NEW u \in Upstreams, IInv, AddUpstream(u) PROVE IInv'
  OBVIOUS
<1> USE DEF AddUpstream, call, request
<1>1. list \in Seq(Upstreams)
  BY DEF IInv, TypeOK
<1>2. /\ Len(list') = Len(list) + 1 /\ Len(list) \in Nat
      /\ \A i \in 1..Len(list') : list'[i] = IF i = Len(list) + 1 THEN u ELSE list[i]
      /\ list' \in Seq(Upstreams)
  BY <1>1
<1>3. TypeOK'
  BY <1>2 DEF IInv, TypeOK, MaxAttempts
<1>4. Listing'
  BY <1>2 DEF IInv, Listing
<1>5. \A r \in Requests : Local(r)'
  BY DEF IInv, Local, ListLocked, MaxAttempts
<1>6. Agreement'
  BY DEF IInv, Agreement, Calm, Agrees
<1>7. QED
  BY <1>3, <1>4, <1>5, <1>6 DEF IInv

\* An upstream is taken out of the list (lb.go:64-67).
LEMMA RemoveStep == \A u \in Upstreams : IInv /\ RemoveUpstream(u) => IInv'
<1> SUFFICES ASSUME NEW u \in Upstreams, IInv, RemoveUpstream(u) PROVE IInv'
  OBVIOUS
<1> USE DEF RemoveUpstream, call, request
<1>1. list \in Seq(Upstreams) /\ Len(list) \in Nat
  BY DEF IInv, TypeOK
<1>2. PICK i \in 1..Len(list) : list[i] = u /\ list' = Without(i)
  OBVIOUS
<1>3. /\ Len(list') = Len(list) - 1
      /\ \A j \in 1..Len(list') : list'[j] = IF j < i THEN list[j] ELSE list[j + 1]
      /\ list' \in Seq(Upstreams)
  <2>1. \A j \in 1..(Len(list) - 1) :
           (IF j < i THEN list[j] ELSE list[j + 1]) \in Upstreams
    BY <1>1
  <2>2. Len(list) - 1 \in Nat
    BY <1>1, <1>2
  <2>3. QED
    BY <1>1, <1>2, <2>1, <2>2 DEF Without
<1>4. TypeOK'
  BY <1>3 DEF IInv, TypeOK, MaxAttempts
<1>5. Listing'
  BY <1>1, <1>2, <1>3 DEF IInv, Listing
<1>6. \A r \in Requests : Local(r)'
  BY DEF IInv, Local, ListLocked, MaxAttempts
<1>7. Agreement'
  BY DEF IInv, Agreement, Calm, Agrees
<1>8. QED
  BY <1>4, <1>5, <1>6, <1>7 DEF IInv

\* Where Next goes with what it returns: to its deferred function, past it, or
\* out of the request (lb.go:91-92, 185-191).
LEMMA ResultFacts ==
    ASSUME TypeOK, NEW q \in Requests, NEW u \in MaybeUpstream, Result(q, u)
    PROVE  /\ us'[q] = u /\ us' \in [Requests -> MaybeUpstream] /\ Own(us, q)
           /\ pc' \in [Requests -> PCs] /\ Own(pc, q)
           /\ u = NoUpstream => pc'[q] = "leave"
           /\ u # NoUpstream /\ opt.sticky => pc'[q] = "settle"
           /\ u # NoUpstream /\ ~opt.sticky => pc'[q] = "enter"
BY DEF TypeOK, Result, Goto, Own, PCs

\* The session is looked at before the list (lb.go:109-120).
LEMMA TrySessionStep == \A q \in Requests : IInv /\ TrySession(q) => IInv'
<1> SUFFICES ASSUME NEW q \in Requests, IInv, TrySession(q) PROVE IInv'
  OBVIOUS
<1> USE DEF TrySession, call, request
<1>1. TypeOK /\ Local(q) /\ session[IpOf[q]] \in MaybeUpstream /\ retries[q] >= retries[q]
  BY IpAssumption DEF IInv, TypeOK
<1> DEFINE u == session[IpOf[q]]
<1>2. CASE u \in {NoUpstream, prev[q]}
  <2>1. /\ us' = us /\ pc' = [pc EXCEPT ![q] = pc'[q]] /\ pc'[q] \in {"pick", "clear"}
        /\ pc'[q] = "clear" => prev[q] # NoUpstream
    BY <1>1, <1>2 DEF Goto, TypeOK
  <2>2. Frame(q)
    BY <2>1, <1>1 DEF Frame, Own, TypeOK
  <2>3. TypeOK'
    BY <2>1, <1>1 DEF TypeOK, PCs, MaxAttempts
  <2>4. Local(q)'
    BY <2>1, <1>1 DEF Local, Choosing, Chosen, MaxAttempts
  <2>5. Agreement'
    BY <2>1, <2>2, <2>3, <1>1, AgreementKept
  <2>6. QED
    BY <2>2, <2>3, <2>4, <2>5, StepOf
<1>3. CASE u \notin {NoUpstream, prev[q]}
  <2>1. Result(q, u) /\ u \in Upstreams
    BY <1>1, <1>3 DEF MaybeUpstream
  <2>2. /\ us'[q] = u /\ us' \in [Requests -> MaybeUpstream] /\ Own(us, q)
        /\ pc' \in [Requests -> PCs] /\ Own(pc, q)
        /\ pc'[q] \in {"settle", "enter"} /\ (opt.sticky => pc'[q] = "settle")
    BY <1>1, <1>3, <2>1, ResultFacts DEF MaybeUpstream
  <2>3. Frame(q)
    BY <2>2, <1>1 DEF Frame, Own, TypeOK
  <2>4. TypeOK'
    BY <2>2, <1>1 DEF TypeOK, MaxAttempts
  <2>5. Local(q)'
    BY <2>1, <2>2, <1>1, <1>3 DEF Local, Choosing, Chosen, MaxAttempts
  <2>6. Agreement'
    BY <2>2, <2>3, <2>4, <1>1, AgreementKept
  <2>7. QED
    BY <2>3, <2>4, <2>5, <2>6, StepOf
<1>4. QED
  BY <1>2, <1>3

\* Only a request that is being retried empties the session (lb.go:113-114).
LEMMA ClearStep == \A q \in Requests : IInv /\ ClearSession(q) => IInv'
<1> SUFFICES ASSUME NEW q \in Requests, IInv, ClearSession(q) PROVE IInv'
  OBVIOUS
<1> USE DEF ClearSession, call, request
<1>1. TypeOK /\ Local(q)
  BY DEF IInv
<1>2. pc' = [pc EXCEPT ![q] = "pick"] /\ pc'[q] = "pick"
  BY <1>1 DEF Goto, TypeOK
<1>3. Frame(q)
  BY <1>2, <1>1 DEF Frame, Own, TypeOK
<1>4. TypeOK'
  BY <1>2, <1>1 DEF TypeOK, PCs, MaxAttempts, MaybeUpstream
<1>5. Local(q)'
  BY <1>2, <1>1 DEF Local, Choosing, Chosen, MaxAttempts
<1>6. retries[q] # 0
  BY <1>1 DEF Local, Choosing
<1>7. Agreement'
  <2> SUFFICES ASSUME opt.sticky, NEW r \in Requests, Calm(r)' PROVE Agrees(r)'
    BY DEF Agreement
  <2>1. Calm(r) /\ IpOf[r] # IpOf[q]
    BY <1>6 DEF Calm
  <2>2. Agrees(r) /\ r # q
    BY <2>1 DEF IInv, Agreement
  <2>3. session'[IpOf[r]] = session[IpOf[r]]
    BY <2>1, <1>1, IpAssumption DEF TypeOK
  <2>4. QED
    BY <2>2, <2>3, <1>2, <1>1 DEF Agrees, TypeOK
<1>8. QED
  BY <1>3, <1>4, <1>5, <1>7, StepOf

\* Two upstreams that follow each other in the list are different, so one of
\* them has not just failed the request (lb.go:152-160).
LEMMA RotateFacts ==
    ASSUME IInv, NEW q \in Requests, Len(list) > 1, NEW n \in Starts(q)
    PROVE  Rotate(q, n) \in Upstreams /\ Rotate(q, n) # prev[q]
<1>1. list \in Seq(Upstreams) /\ Len(list) \in Nat /\ HashOf[IpOf[q]] \in Nat
  BY IpAssumption, HashAssumption DEF IInv, TypeOK
<1>2. n \in Nat /\ n < Len(list)
  BY <1>1 DEF Starts
<1>3. /\ (n % Len(list)) + 1 \in 1..Len(list)
      /\ ((n + 1) % Len(list)) + 1 \in 1..Len(list)
      /\ (n % Len(list)) + 1 # ((n + 1) % Len(list)) + 1
  BY <1>1, <1>2
<1>4. /\ Rotated(n) \in Upstreams /\ Rotated(n + 1) \in Upstreams
      /\ Rotated(n) # Rotated(n + 1)
  BY <1>1, <1>3 DEF Rotated, IInv, Listing
<1>5. QED
  BY <1>4 DEF Rotate

\* Whatever Next returns from the list is listed, and is the upstream that has
\* failed only when it was alone (lb.go:126-162).
LEMMA ReturnStep ==
    ASSUME IInv, NEW q \in Requests, NEW u \in MaybeUpstream, Result(q, u),
           pc[q] \in {"pick", "scan"}, idx' \in [Requests -> Nat], Own(idx, q),
           sole' \in [Requests -> BOOLEAN], Own(sole, q),
           u # NoUpstream /\ u = prev[q] => sole'[q],
           UNCHANGED <<opt, list, fresh, session, seen, request>>
    PROVE  IInv'
<1> USE DEF request
<1>1. TypeOK /\ Local(q) /\ retries[q] >= retries[q]
  BY DEF IInv, TypeOK
<1>2. /\ us'[q] = u /\ us' \in [Requests -> MaybeUpstream] /\ Own(us, q)
      /\ pc' \in [Requests -> PCs] /\ Own(pc, q)
      /\ u = NoUpstream => pc'[q] = "leave"
      /\ u # NoUpstream /\ opt.sticky => pc'[q] = "settle"
      /\ u # NoUpstream /\ ~opt.sticky => pc'[q] = "enter"
  BY <1>1, ResultFacts
<1>3. Frame(q)
  BY <1>2, <1>1 DEF Frame, Own, TypeOK
<1>4. TypeOK'
  BY <1>2, <1>1 DEF TypeOK, MaxAttempts
<1>5. Local(q)'
  <2>1. MaxAttempts' = MaxAttempts /\ pc'[q] \in {"leave", "settle", "enter"}
    BY <1>2 DEF MaxAttempts
  <2>2. u # NoUpstream => u \in Upstreams
    BY DEF MaybeUpstream
  <2>3. QED
    BY <1>2, <1>1, <2>1, <2>2 DEF Local, Choosing, Chosen
<1>6. Agreement'
  BY <1>2, <1>3, <1>4, <1>1, AgreementKept
<1>7. QED
  BY <1>3, <1>4, <1>5, <1>6, StepOf

\* Next distinguishes three sizes of the list (lb.go:126-133).
LEMMA Sizes ==
    \A n \in Nat : /\ n = 0 \/ n = 1 \/ n > 1
                   /\ n > 1 => n # 0 /\ n # 1
OBVIOUS

\* The list is read locked: at once a choice, or the walk of MinBy begins
\* (lb.go:122-151).
LEMMA PickStep == \A q \in Requests : IInv /\ Pick(q) => IInv'
<1> SUFFICES ASSUME NEW q \in Requests, IInv, Pick(q) PROVE IInv'
  OBVIOUS
<1>0. Len(list) \in Nat
  BY DEF IInv, TypeOK
<1>1. TypeOK /\ Local(q) /\ list \in Seq(Upstreams) /\ retries[q] >= retries[q]
  BY DEF IInv, TypeOK
<1>2. /\ pc[q] = "pick" /\ UNCHANGED <<opt, list, fresh, session, seen, request>>
      /\ sole' \in [Requests -> BOOLEAN] /\ Own(sole, q) /\ sole'[q] = (Len(list) = 1)
  BY <1>1 DEF Pick, TypeOK, Own
<1>3. idx' = idx => idx' \in [Requests -> Nat] /\ Own(idx, q)
  BY <1>1 DEF TypeOK, Own
<1>4. CASE Len(list) = 0
  <2>1. Result(q, NoUpstream) /\ idx' = idx
    BY <1>4 DEF Pick
  <2>2. NoUpstream \in MaybeUpstream
    BY DEF MaybeUpstream
  <2>3. QED
    BY <1>2, <1>3, <2>1, <2>2, ReturnStep
<1>5. CASE Len(list) = 1
  <2>1. Result(q, list[1]) /\ idx' = idx
    BY <1>5 DEF Pick
  <2>2. list[1] \in MaybeUpstream
    BY <1>1, <1>5 DEF MaybeUpstream
  <2>3. QED
    BY <1>2, <1>3, <1>5, <2>1, <2>2, ReturnStep
<1>6. CASE Len(list) > 1 /\ opt.method = "conn"
  <2>0. Len(list) # 0 /\ Len(list) # 1
    BY <1>0, <1>6, Sizes, Zenon
  <2>1. /\ us' = [us EXCEPT ![q] = list[1]] /\ idx' = [idx EXCEPT ![q] = 2]
        /\ pc' = [pc EXCEPT ![q] = "scan"]
    BY <2>0, <1>6, Zenon DEF Pick, Goto
  <2>2. /\ us'[q] \in Upstreams /\ us' \in [Requests -> MaybeUpstream] /\ Own(us, q)
        /\ idx'[q] = 2 /\ idx' \in [Requests -> Nat] /\ Own(idx, q)
        /\ pc'[q] = "scan" /\ pc' \in [Requests -> PCs] /\ Own(pc, q)
    BY <1>6, <2>1, <1>1 DEF TypeOK, Own, MaybeUpstream, PCs
  <2>3. Frame(q)
    BY <1>2, <2>2, <1>1 DEF Frame, Own, TypeOK, request
  <2>4. TypeOK'
    BY <1>2, <2>2, <1>1 DEF TypeOK, MaxAttempts, request
  <2>5. Local(q)'
    BY <1>2, <2>2, <1>1, <1>6 DEF Local, Choosing, Chosen, MaxAttempts, request
  <2>6. Agreement'
    BY <1>2, <2>2, <2>3, <2>4, <1>1, AgreementKept DEF request
  <2>7. QED
    BY <2>3, <2>4, <2>5, <2>6, StepOf
<1>7. CASE Len(list) > 1 /\ opt.method # "conn"
  <2>0. Len(list) # 0 /\ Len(list) # 1
    BY <1>0, <1>7, Sizes, Zenon
  <2>1. PICK n \in Starts(q) : Result(q, Rotate(q, n))
    BY <2>0, <1>7, Zenon DEF Pick
  <2>2. idx' = idx
    BY <1>1, <1>7 DEF Pick
  <2>3. Rotate(q, n) \in MaybeUpstream /\ Rotate(q, n) # prev[q]
    BY <1>7, RotateFacts DEF MaybeUpstream
  <2>4. QED
    BY <1>2, <1>3, <2>1, <2>2, <2>3, ReturnStep
<1>8. Len(list) = 0 \/ Len(list) = 1 \/ Len(list) > 1
  BY <1>0, Sizes, Zenon
<1>9. QED
  BY <1>8, <1>4, <1>5, <1>6, <1>7

\* MinBy never ends with the upstream that has failed (lb.go:134-144).
LEMMA ScanStep == \A q \in Requests : IInv /\ Scan(q) => IInv'
<1> SUFFICES ASSUME NEW q \in Requests, IInv, Scan(q) PROVE IInv'
  OBVIOUS
<1> DEFINE item == list[idx[q]]
           least == IF Less(q, item, us[q]) THEN item ELSE us[q]
<1>0. TypeOK /\ Local(q) /\ pc[q] = "scan"
  BY DEF IInv, Scan
<1>1. /\ TypeOK /\ Local(q) /\ list \in Seq(Upstreams) /\ Len(list) \in Nat
      /\ pc[q] = "scan" /\ idx[q] \in 2..Len(list) /\ us[q] \in Upstreams
      /\ retries[q] >= retries[q]
  <2>1. list \in Seq(Upstreams) /\ Len(list) \in Nat /\ retries[q] >= retries[q]
    BY <1>0 DEF TypeOK
  <2>2. idx[q] \in 2..Len(list) /\ us[q] \in Upstreams
    BY <1>0 DEF Local
  <2>3. QED
    BY <1>0, <2>1, <2>2
<1>2. least \in Upstreams
  BY <1>1
<1>3. /\ UNCHANGED <<opt, list, fresh, session, seen, request, sole>>
      /\ idx' \in [Requests -> Nat] /\ Own(idx, q) /\ idx'[q] = idx[q] + 1
      /\ sole' \in [Requests -> BOOLEAN] /\ Own(sole, q)
  BY <1>1 DEF Scan, TypeOK, Own
<1>4. CASE idx[q] < Len(list)
  <2>1. us' = [us EXCEPT ![q] = least] /\ pc' = pc
    BY <1>4 DEF Scan
  <2>2. us'[q] \in Upstreams /\ us' \in [Requests -> MaybeUpstream] /\ Own(us, q)
    BY <2>1, <1>2, <1>1 DEF TypeOK, Own, MaybeUpstream
  <2>3. Frame(q)
    BY <1>3, <2>1, <2>2 DEF Frame, Own, request
  <2>4. TypeOK'
    BY <1>3, <2>1, <2>2, <1>1 DEF TypeOK, MaxAttempts, request
  <2>5. Local(q)'
    BY <1>3, <2>1, <2>2, <1>1, <1>4 DEF Local, Choosing, Chosen, MaxAttempts, request
  <2>6. Agreement'
    BY <1>3, <2>1, <2>2, <2>3, <2>4, <1>1, AgreementKept DEF request
  <2>7. QED
    BY <2>3, <2>4, <2>5, <2>6, StepOf
<1>5. CASE ~(idx[q] < Len(list))
  <2> DEFINE u == IF least = prev[q] THEN NoUpstream ELSE least
  <2>1. Result(q, u)
    BY <1>5 DEF Scan
  <2>2. u \in MaybeUpstream /\ (u # NoUpstream => u # prev[q])
    BY <1>2 DEF MaybeUpstream
  <2> HIDE DEF u, least
  <2>3. QED
    BY <1>1, <1>3, <2>1, <2>2, ReturnStep
<1>6. QED
  BY <1>4, <1>5

\* The deferred function follows a session that has not failed (lb.go:93-98).
LEMMA SettleStep == \A q \in Requests : IInv /\ Settle(q) => IInv'
<1> SUFFICES ASSUME NEW q \in Requests, IInv, Settle(q) PROVE IInv'
  OBVIOUS
<1> USE DEF Settle, call, request
<1> DEFINE v == session[IpOf[q]]
<1>1. TypeOK /\ Local(q) /\ v \in MaybeUpstream /\ pc[q] = "settle"
      /\ retries[q] >= retries[q]
  BY IpAssumption DEF IInv, TypeOK
<1>2. CASE v \notin {NoUpstream, prev[q]}
  <2>1. us' = [us EXCEPT ![q] = v] /\ pc' = [pc EXCEPT ![q] = "enter"] /\ seen' = seen
        /\ v \in Upstreams
    BY <1>1, <1>2 DEF Goto, MaybeUpstream
  <2>2. Frame(q) /\ us'[q] = v /\ pc'[q] = "enter"
    BY <2>1, <1>1 DEF Frame, Own, TypeOK
  <2>3. TypeOK'
    BY <2>1, <1>1 DEF TypeOK, PCs, MaxAttempts, MaybeUpstream
  <2>4. Local(q)'
    BY <2>1, <2>2, <1>1, <1>2 DEF Local, Choosing, Chosen, MaxAttempts
  <2>5. Agreement'
    <3> SUFFICES ASSUME opt.sticky, NEW r \in Requests, Calm(r)' PROVE Agrees(r)'
      BY DEF Agreement
    <3>1. Calm(r)
      BY DEF Calm
    <3>2. Agrees(r)
      BY <3>1 DEF IInv, Agreement
    <3>3. r # q => pc'[r] = pc[r] /\ us'[r] = us[r]
      BY <2>2 DEF Frame, Own
    <3>4. QED
      BY <3>2, <3>3, <2>2 DEF Agrees
  <2>6. QED
    BY <2>2, <2>3, <2>4, <2>5, StepOf
<1>3. CASE v \in {NoUpstream, prev[q]}
  <2>1. seen' = [seen EXCEPT ![q] = v] /\ pc' = [pc EXCEPT ![q] = "swap"] /\ us' = us
    BY <1>3 DEF Goto
  <2>2. Frame(q) /\ seen'[q] = v /\ pc'[q] = "swap"
    BY <2>1, <1>1 DEF Frame, Own, TypeOK
  <2>3. TypeOK'
    BY <2>1, <1>1 DEF TypeOK, PCs, MaxAttempts
  <2>4. Local(q)'
    BY <2>1, <2>2, <1>1, <1>3 DEF Local, Choosing, Chosen, MaxAttempts
  <2>5. Agreement'
    BY <2>1, <2>2, <2>3, <1>1, AgreementKept
  <2>6. QED
    BY <2>2, <2>3, <2>4, <2>5, StepOf
<1>4. QED
  BY <1>2, <1>3

\* The first request of a client to swap decides for all (lb.go:98-104): a
\* session that is empty, with no retry so far, means that nobody has entered.
LEMMA SwapStep == \A q \in Requests : IInv /\ Swap(q) => IInv'
<1> SUFFICES ASSUME NEW q \in Requests, IInv, Swap(q) PROVE IInv'
  OBVIOUS
<1> USE DEF Swap, call, request
<1>1. TypeOK /\ Local(q) /\ IpOf[q] \in Ips /\ pc[q] = "swap" /\ us[q] \in Upstreams
      /\ retries[q] >= retries[q]
  <2>1. TypeOK /\ Local(q) /\ IpOf[q] \in Ips /\ pc[q] = "swap"
    BY IpAssumption DEF IInv
  <2>2. QED
    BY <2>1 DEF TypeOK, Local, Chosen
<1>2. /\ UNCHANGED <<opt, list, fresh, us, seen, idx, prev, retries, held, gone, sole>>
      /\ pc' \in [Requests -> PCs] /\ Own(pc, q) /\ pc'[q] \in {"enter", "settle"}
      /\ session' \in [Ips -> MaybeUpstream]
  BY <1>1 DEF Goto, Own, TypeOK, PCs, MaybeUpstream
<1>3. Frame(q)
  BY <1>2 DEF Frame, Own
<1>4. TypeOK'
  BY <1>2, <1>1 DEF TypeOK, MaxAttempts
<1>5. Local(q)'
  BY <1>2, <1>1 DEF Local, Choosing, Chosen, MaxAttempts
<1>6. Agreement'
  <2>1. CASE session[IpOf[q]] # seen[q]
    <3>1. session' = session /\ pc'[q] = "settle"
      BY <2>1, <1>1 DEF Goto, TypeOK
    <3>2. QED
      BY <3>1, <1>1, <1>2, <1>3, <1>4, AgreementKept
  <2>2. CASE session[IpOf[q]] = seen[q]
    <3>1. session' = [session EXCEPT ![IpOf[q]] = us[q]] /\ pc'[q] = "enter"
      BY <2>2, <1>1 DEF Goto, TypeOK
    <3> SUFFICES ASSUME opt.sticky, NEW r \in Requests, Calm(r)' PROVE Agrees(r)'
      BY DEF Agreement
    <3>2. Calm(r) /\ IpOf[r] \in Ips
      BY IpAssumption DEF Calm
    <3>3. Agrees(r) /\ Local(r)
      BY <3>2 DEF IInv, Agreement
    <3>4. CASE IpOf[r] # IpOf[q]
      <4>1. r # q /\ session'[IpOf[r]] = session[IpOf[r]]
        BY <3>1, <3>2, <3>4, <1>1 DEF TypeOK
      <4>2. QED
        BY <4>1, <3>3, <1>2 DEF Agrees, Own
    <3>5. CASE IpOf[r] = IpOf[q]
      <4>1. retries[q] = 0 /\ session'[IpOf[r]] = us[q]
        BY <3>1, <3>2, <3>5, <1>1 DEF Calm, TypeOK
      <4>2. prev[q] = NoUpstream /\ seen[q] = NoUpstream
        BY <4>1, <1>1 DEF Local, Choosing
      <4>3. session[IpOf[r]] = NoUpstream
        BY <4>2, <2>2, <3>5
      <4>4. prev[r] = NoUpstream
        BY <4>3, <3>3 DEF Agrees
      <4>5. pc[r] # "enter"
        BY <4>3, <3>3, NoUpstreamAssumption DEF Agrees, Local, Chosen
      <4>6. QED
        BY <4>1, <4>4, <4>5, <1>2 DEF Agrees, Own
    <3>6. QED
      BY <3>4, <3>5
  <2>3. QED
    BY <2>1, <2>2
<1>7. QED
  BY <1>3, <1>4, <1>5, <1>6, StepOf

\* A request arrives, is forwarded with or without success, or gives up during
\* the backoff (lb.go:165-183, upstream.go:37-54).
LEMMA MoveStep ==
    \A q \in Requests :
        IInv /\ (Arrive(q) \/ ForwardEnds(q) \/ ForwardFails(q) \/ BackoffEnds(q)) => IInv'
<1> SUFFICES ASSUME NEW q \in Requests, IInv,
                    Arrive(q) \/ ForwardEnds(q) \/ ForwardFails(q) \/ BackoffEnds(q)
             PROVE  IInv'
  OBVIOUS
<1>1. TypeOK /\ Local(q) /\ retries[q] >= retries[q]
  BY DEF IInv, TypeOK
<1>2. UNCHANGED <<opt, list, fresh, session, call, request, sole>>
  BY DEF Arrive, ForwardEnds, ForwardFails, BackoffEnds
<1>3. /\ pc' \in [Requests -> PCs] /\ Own(pc, q)
      /\ \/ pc[q] = "idle" /\ pc'[q] \in {"session", "pick"}
         \/ pc[q] \in {"forward", "backoff"} /\ pc'[q] \in {"leave", "backoff"}
  BY <1>1 DEF Arrive, ForwardEnds, ForwardFails, BackoffEnds, FirstStep, Goto, TypeOK,
              Own, PCs
<1>4. Frame(q)
  BY <1>2, <1>3 DEF Frame, Own, call, request
<1>5. TypeOK'
  BY <1>1, <1>2, <1>3 DEF TypeOK, MaxAttempts, call, request
<1>6. Local(q)'
  BY <1>1, <1>2, <1>3 DEF Local, Choosing, Chosen, MaxAttempts, call, request
<1>7. Agreement'
  BY <1>1, <1>2, <1>3, <1>4, <1>5, AgreementKept DEF call, request
<1>8. QED
  BY <1>4, <1>5, <1>6, <1>7, StepOf

\* The client of a request goes away.
LEMMA GoneStep == \A q \in Requests : IInv /\ ClientGoes(q) => IInv'
<1> SUFFICES ASSUME NEW q \in Requests, IInv, ClientGoes(q) PROVE IInv'
  OBVIOUS
<1> USE DEF ClientGoes, call
<1>1. TypeOK'
  BY DEF IInv, TypeOK, MaxAttempts
<1>2. Listing' /\ Agreement'
  BY DEF IInv, Listing, Agreement, Calm, Agrees
<1>3. \A r \in Requests : Local(r)'
  BY DEF IInv, Local, MaxAttempts
<1>4. QED
  BY <1>1, <1>2, <1>3 DEF IInv

\* A request that enters an upstream is the one its session names, or has been
\* retried (lb.go:186-188).
LEMMA EnterStep == \A q \in Requests : IInv /\ Enter(q) => IInv'
<1> SUFFICES ASSUME NEW q \in Requests, IInv, Enter(q) PROVE IInv'
  OBVIOUS
<1> USE DEF Enter
<1>1. TypeOK /\ Local(q) /\ pc[q] = "enter"
  BY DEF IInv
<1>2. us[q] \in Upstreams /\ held[q] \in Seq(Upstreams)
  BY <1>1 DEF Local, Chosen, TypeOK
<1>3. pc' = [pc EXCEPT ![q] = "forward"] /\ pc'[q] = "forward"
  BY <1>1 DEF Goto, TypeOK
<1>4. /\ prev'[q] = us[q] /\ prev' \in [Requests -> MaybeUpstream]
      /\ held'[q] = Append(held[q], us[q]) /\ held' \in [Requests -> Seq(Upstreams)]
      /\ Len(held'[q]) = Len(held[q]) + 1
  BY <1>1, <1>2 DEF TypeOK, MaybeUpstream
<1>5. Frame(q)
  BY <1>1, <1>3 DEF Frame, Own, TypeOK
<1>6. TypeOK'
  BY <1>1, <1>3, <1>4 DEF TypeOK, PCs, MaxAttempts, MaybeUpstream
<1>7. Local(q)'
  <2>1. retries'[q] = retries[q] /\ MaxAttempts' = MaxAttempts
    BY DEF MaxAttempts
  <2>2. /\ Len(held[q]) \in Nat /\ retries[q] \in Int /\ MaxAttempts \in Int
        /\ retries[q] < MaxAttempts /\ Len(held[q]) <= retries[q]
    BY <1>1, <1>2, Attempts DEF Local, Choosing, TypeOK
  <2>3. Len(held'[q]) <= MaxAttempts /\ Len(held'[q]) <= retries[q] + 1
    BY <1>4, <2>2
  <2>4. QED
    BY <2>1, <2>2, <2>3, <1>3 DEF Local, Choosing, Chosen
<1>8. Agreement'
  <2> SUFFICES ASSUME opt.sticky, NEW r \in Requests, Calm(r)' PROVE Agrees(r)'
    BY DEF Agreement
  <2>1. Calm(r)
    BY DEF Calm
  <2>2. Agrees(r)
    BY <2>1 DEF IInv, Agreement
  <2>3. r # q => pc'[r] = pc[r] /\ us'[r] = us[r] /\ prev'[r] = prev[r]
    BY <1>5 DEF Frame, Own
  <2>4. QED
    BY <2>2, <2>3, <1>1, <1>3, <1>4 DEF Agrees
<1>9. QED
  BY <1>5, <1>6, <1>7, <1>8, StepOf

\* The counter is incremented before it is compared (upstream.go:49, lb.go:169).
LEMMA RetryStep == \A q \in Requests : IInv /\ Retry(q) => IInv'
<1> SUFFICES ASSUME NEW q \in Requests, IInv, Retry(q) PROVE IInv'
  OBVIOUS
<1> USE DEF Retry, call
<1>1. TypeOK /\ Local(q) /\ pc[q] = "backoff"
  BY DEF IInv
<1>2. /\ retries[q] \in Nat /\ retries[q] < MaxAttempts /\ MaxAttempts \in Nat \ {0}
      /\ opt.retryMax \in Int /\ held[q] \in Seq(Upstreams)
  BY <1>1, Attempts DEF TypeOK, Local
<1>3. retries' = [retries EXCEPT ![q] = retries[q] + 1] /\ retries'[q] = retries[q] + 1
  BY <1>1 DEF TypeOK
<1>4. /\ pc' \in [Requests -> PCs] /\ Own(pc, q)
      /\ pc'[q] \in {"leave", "session", "pick"}
      /\ pc'[q] # "leave" => retries[q] + 1 < opt.retryMax
  BY <1>1, <1>2, <1>3 DEF Goto, FirstStep, TypeOK, PCs, Own
<1>5. Frame(q)
  BY <1>3, <1>4, <1>1 DEF Frame, Own, TypeOK
<1>6. TypeOK'
  <2>1. retries[q] + 1 \in 0..MaxAttempts /\ MaxAttempts' = MaxAttempts
    BY <1>2 DEF MaxAttempts
  <2>2. retries' \in [Requests -> 0..MaxAttempts']
    BY <2>1, <1>3, <1>1 DEF TypeOK
  <2>3. QED
    BY <2>2, <1>4, <1>1 DEF TypeOK
<1>7. Local(q)'
  <2>1. MaxAttempts' = MaxAttempts /\ held' = held /\ prev' = prev
    BY DEF MaxAttempts
  <2>2. pc'[q] # "leave" => retries'[q] < MaxAttempts
    BY <1>2, <1>3, <1>4 DEF MaxAttempts
  <2>3. /\ Len(held[q]) <= MaxAttempts /\ Len(held[q]) <= retries'[q]
        /\ Len(held[q]) <= retries'[q] + 1 /\ retries'[q] # 0
    BY <1>1, <1>2, <1>3 DEF Local
  <2>4. QED
    BY <2>1, <2>2, <2>3, <1>4 DEF Local, Choosing, Chosen
<1>8. Agreement'
  <2>1. retries'[q] >= retries[q]
    BY <1>2, <1>3
  <2>2. QED
    BY <2>1, <1>4, <1>5, <1>6, AgreementKept
<1>9. QED
  BY <1>5, <1>6, <1>7, <1>8, StepOf

\* A call returns and gives its connection back (upstream.go:67).
LEMMA LeaveStep == \A q \in Requests : IInv /\ Leave(q) => IInv'
<1> SUFFICES ASSUME NEW q \in Requests, IInv, Leave(q) PROVE IInv'
  OBVIOUS
<1> USE DEF Leave, call
<1>1. TypeOK /\ Local(q) /\ pc[q] = "leave" /\ held[q] \in Seq(Upstreams)
      /\ retries[q] >= retries[q]
  BY DEF IInv, TypeOK
<1>2. CASE held[q] = <<>>
  <2>1. pc' = [pc EXCEPT ![q] = "ended"] /\ held' = held /\ pc'[q] = "ended"
    BY <1>1, <1>2 DEF Goto, TypeOK
  <2>2. Frame(q)
    BY <2>1, <1>1 DEF Frame, Own, TypeOK
  <2>3. TypeOK'
    BY <2>1, <1>1 DEF TypeOK, PCs, MaxAttempts
  <2>4. Local(q)'
    BY <2>1, <1>1 DEF Local, Choosing, Chosen, MaxAttempts
  <2>5. Agreement'
    BY <2>1, <2>2, <2>3, <1>1, AgreementKept
  <2>6. QED
    BY <2>2, <2>3, <2>4, <2>5, StepOf
<1>3. CASE held[q] # <<>>
  <2> DEFINE rest == SubSeq(held[q], 1, Len(held[q]) - 1)
  <2>1. held' = [held EXCEPT ![q] = rest] /\ pc' = pc
    BY <1>3
  <2>2. rest \in Seq(Upstreams) /\ Len(rest) = Len(held[q]) - 1
    BY <1>1, <1>3
  <2> HIDE DEF rest
  <2>3. held'[q] = rest /\ held' \in [Requests -> Seq(Upstreams)] /\ Own(held, q)
    BY <2>1, <2>2, <1>1 DEF TypeOK, Own
  <2>4. Frame(q)
    BY <2>1, <2>3 DEF Frame, Own
  <2>5. TypeOK'
    BY <2>1, <2>3, <1>1 DEF TypeOK, MaxAttempts
  <2>6. Local(q)'
    <3>1. /\ Len(held[q]) \in Nat /\ retries[q] \in Int /\ MaxAttempts \in Int
          /\ Len(held[q]) <= MaxAttempts /\ Len(held[q]) <= retries[q] + 1
      BY <1>1, Attempts DEF Local, TypeOK
    <3>2. Len(held'[q]) <= MaxAttempts /\ Len(held'[q]) <= retries[q] + 1
      BY <3>1, <2>2, <2>3
    <3>3. MaxAttempts' = MaxAttempts
      BY DEF MaxAttempts
    <3>4. QED
      BY <3>2, <3>3, <2>1, <1>1 DEF Local, Choosing, Chosen
  <2>7. Agreement'
    BY <2>1, <2>4, <2>5, <1>1, AgreementKept
  <2>8. QED
    BY <2>4, <2>5, <2>6, <2>7, StepOf
<1>4. QED
  BY <1>2, <1>3

\* The invariant survives every step.
LEMMA NextInv == IInv /\ [Next]_vars => IInv'
<1> SUFFICES ASSUME IInv, [Next]_vars PROVE IInv'
  OBVIOUS
<1>1. CASE \E u \in Upstreams : AddUpstream(u) \/ RemoveUpstream(u)
  BY <1>1, AddStep, RemoveStep
<1>2. ASSUME NEW q \in Requests, Proceed(q) PROVE IInv'
  BY <1>2, TrySessionStep, ClearStep, PickStep, ScanStep, SettleStep, SwapStep,
     EnterStep, RetryStep, MoveStep, LeaveStep DEF Proceed
<1>3. ASSUME NEW q \in Requests, Arrive(q) \/ ForwardEnds(q) \/ ForwardFails(q)
      PROVE  IInv'
  BY <1>3, MoveStep
<1>4. ASSUME NEW q \in Requests, ClientGoes(q) PROVE IInv'
  BY <1>4, GoneStep
<1>5. CASE UNCHANGED vars
  <2>1. TypeOK' /\ Listing' /\ Agreement'
    BY <1>5 DEF vars, call, request, IInv, TypeOK, MaxAttempts, Listing, Agreement,
                Calm, Agrees
  <2>2. \A r \in Requests : Local(r)'
    BY <1>5 DEF vars, call, request, IInv, Local, MaxAttempts
  <2>3. QED
    BY <2>1, <2>2 DEF IInv
<1>6. QED
  BY <1>1, <1>2, <1>3, <1>4, <1>5 DEF Next

\* The invariant holds of every reachable state.
THEOREM Invariance == Spec => []IInv
<1>1. Init => IInv
  BY InitInv
<1>2. IInv /\ [Next]_vars => IInv'
  BY NextInv
<1>3. QED
  BY <1>1, <1>2, PTL DEF Spec

-----------------------------------------------------------------------------
(* Theorems *)

\* Every variable of the balancer keeps its type, the retry counter its bound.
THEOREM TypeCorrect == Spec => []TypeOK
<1>1. IInv => TypeOK
  BY DEF IInv
<1>2. QED
  BY <1>1, Invariance, PTL

\* However requests overlap, none is tried more often, or counted at more
\* upstreams, than the option allows (lb.go:169, upstream.go:49).
THEOREM RetriesAreBounded == Spec => []RetriesBounded
<1>1. IInv => RetriesBounded
  BY DEF IInv, Local, RetriesBounded
<1>2. QED
  BY <1>1, Invariance, PTL

\* A retry leaves the upstream that has failed, whatever the session has come
\* to say, if another was listed when it chose (lb.go:76-163).
THEOREM RetriesMoveOn == Spec => []RetryMoves
<1>1. IInv => RetryMoves
  BY DEF IInv, Local, RetryMoves, Chosen
<1>2. QED
  BY <1>1, Invariance, PTL

\* However requests overlap, their retries are few and each of them goes on.
THEOREM RetriesAreAlwaysRight == Spec => []RetriesAreRight
BY RetriesAreBounded, RetriesMoveOn, PTL DEF RetriesAreRight

\* A sticky balancer sends all requests of a client to one upstream as long as
\* none of them has been retried (lb.go:27, 91-106).
THEOREM OneUpstreamPerClient == Spec => []StickyAgrees
<1>1. IInv => StickyAgrees
  <2> SUFFICES ASSUME IInv, opt.sticky, NEW r1 \in Requests, NEW r2 \in Requests,
                      IpOf[r1] = IpOf[r2],
                      \A r \in Requests : IpOf[r] = IpOf[r1] => ~Retried(r),
                      prev[r1] # NoUpstream, prev[r2] # NoUpstream
               PROVE  prev[r1] = prev[r2]
    BY DEF StickyAgrees
  <2>1. \A r \in Requests : retries[r] > 0 \/ retries[r] = 0
    BY DEF IInv, TypeOK
  <2>2. Calm(r1) /\ Calm(r2)
    BY <2>1 DEF Calm, Retried
  <2>3. Agrees(r1) /\ Agrees(r2)
    BY <2>2 DEF IInv, Agreement
  <2>4. QED
    BY <2>3 DEF Agrees
<1>2. QED
  BY <1>1, Invariance, PTL
=============================================================================

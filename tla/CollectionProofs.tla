-------------------------- MODULE CollectionProofs --------------------------
(***************************************************************************)
(* For any number of keys and clients, and however many keys are short     *)
(* enough for the prefix's memory: a collection implements KeyStore until  *)
(* two different keys have been in that memory at once, and goes on to do  *)
(* so for the keys that do not fit there.  The step at which an operation  *)
(* takes effect is the look of a read, and the commit of an update: what   *)
(* the transaction has looked up is still true then, or its commit fails.  *)
(***************************************************************************)
EXTENDS Collection, TLAPS

\* A client that has marshalled a short key reads a short key again: its own,
\* while no other has been in memory with it.
KeyIsOwn ==
    \A c \in Clients : Holds(c) => scratch \in Short /\ (~shared => scratch = call[c].key)

\* A client stores its own value; what it commits it has not looked up in vain.
Values == \A c \in Clients : pc[c] # "idle" => call[c].val.id = call[c].key
Committing ==
    \A c \in Clients : pc[c] = "commit" =>
        /\ call[c].op \in S!Updates
        /\ call[c].op = "delete" => seen[c] = {} /\ looked[c] = {}
        /\ call[c].op = "insert" => looked[c] = {}
        /\ Own(c) /\ call[c].op # "delete" => seen[c] = {call[c].key}
        /\ Own(c) /\ ~Conflict(c) => looked[c] = S!Reads(call[c], db)

IInv == TypeOK /\ KeyIsOwn /\ Values /\ Committing /\ StrayedIsShort

-----------------------------------------------------------------------------
(* Reads and Writes, by cases *)

LEMMA ReadsType ==
    ASSUME NEW s \in [Keys -> S!Values \cup {None}], NEW r, r.op = "range" \/ r.key \in Keys
    PROVE  S!Reads(r, s) \subseteq S!Values
BY DEF S!Reads

\* Two stores that agree on a key are the same for those who read the key.
LEMMA ReadsKey ==
    ASSUME NEW s, NEW t, NEW r, r.op \in S!Updates, s[r.key] = t[r.key]
    PROVE  S!Reads(r, s) = S!Reads(r, t)
BY DEF S!Reads, S!Updates

\* An insertion that finds something writes nothing, nor do reads.
LEMMA WritesNothing ==
    ASSUME NEW s \in [Keys -> S!Values \cup {None}], NEW r, r.key \in Keys,
           r.op \in {"get", "range"} \/ (r.op = "insert" /\ S!Reads(r, s) # {})
    PROVE  S!Writes(r, s) = s
<1>1. CASE r.op \in {"get", "range"}
  BY <1>1 DEF S!Writes
<1>2. CASE r.op = "insert" /\ S!Reads(r, s) # {}
  <2>1. s[r.key] # None
    BY <1>2 DEF S!Reads
  <2>2. QED
    BY <1>2, <2>1 DEF S!Writes
<1>3. QED
  BY <1>1, <1>2

\* What a commit writes is what the operation is to write.
LEMMA WritesCommit ==
    ASSUME NEW s \in [Keys -> S!Values \cup {None}], NEW r, r.key \in Keys, r.op \in S!Updates,
           r.op = "insert" => S!Reads(r, s) = {}
    PROVE  S!Writes(r, s) = [s EXCEPT ![r.key] = IF r.op = "delete" THEN None ELSE r.val]
<1>1. CASE r.op = "insert"
  <2>1. s[r.key] = None
    BY <1>1 DEF S!Reads
  <2>2. QED
    BY <1>1, <2>1 DEF S!Writes
<1>2. CASE r.op # "insert"
  BY <1>2 DEF S!Writes, S!Updates
<1>3. QED
  BY <1>1, <1>2

\* The key that a client finds in memory is its own, or a short one for a short one.
LEMMA MemoryKey ==
    ASSUME IInv, NEW c \in Clients, pc[c] \in {"look", "commit"}
    PROVE  /\ call[c].key \in Keys /\ Key(c) \in Keys /\ Request(c).op = call[c].op
           /\ Own(c) => Key(c) = call[c].key /\ Request(c) = call[c]
           /\ Key(c) # call[c].key => call[c].key \in Short /\ Key(c) \in Short /\ shared
           /\ Request(c).op = "range" \/ Request(c).key \in Keys
<1>1. call[c].key \in Keys /\ pc[c] # "idle"
  BY DEF IInv, TypeOK
<1>2. /\ Key(c) \in Keys
      /\ Own(c) => Key(c) = call[c].key
      /\ Key(c) # call[c].key => call[c].key \in Short /\ Key(c) \in Short /\ shared
  BY <1>1, ShortAssumption DEF IInv, KeyIsOwn, Holds, Key, Own
<1>3. Request(c).op = call[c].op /\ Request(c).key = Key(c) /\ (Own(c) => Request(c) = call[c])
  BY <1>1, <1>2 DEF IInv, TypeOK, Request
<1>4. QED
  BY <1>1, <1>2, <1>3

\* An answer is a call's record again.
Calls == [op : S!Ops, key : Keys \cup {None}, val : S!Values \cup {None},
          st : {"idle", "called", "done"}, ok : BOOLEAN, read : SUBSET S!Values]

LEMMA AnswerType ==
    ASSUME NEW r \in Calls, NEW found \in SUBSET S!Values
    PROVE  [r EXCEPT !.st = "done", !.ok = TRUE, !.read = found] \in Calls
<1>1. [r EXCEPT !.st = "done"] \in Calls
  BY DEF Calls
<1>2. [r EXCEPT !.st = "done", !.ok = TRUE] \in Calls
  BY <1>1, Zenon DEF Calls
<1>3. QED
  BY <1>2 DEF Calls

-----------------------------------------------------------------------------
(* The invariant *)

LEMMA InitInv == Init => IInv
<1> SUFFICES ASSUME Init PROVE IInv
  OBVIOUS
<1>1. TypeOK
  BY DEF Init, TypeOK, S!Init, S!Quiet, S!Ops, S!Updates
<1>2. KeyIsOwn /\ Values /\ Committing /\ StrayedIsShort
  BY DEF Init, S!Init, KeyIsOwn, Holds, Values, Committing, StrayedIsShort
<1>3. QED
  BY <1>1, <1>2 DEF IInv

LEMMA CallStep ==
    ASSUME IInv, NEW c \in Clients, NEW op \in S!Ops, NEW k \in Keys, NEW v \in Versions,
           Call(c, op, k, v)
    PROVE  IInv'
<1>1. /\ pc[c] = "idle" /\ pc' = [pc EXCEPT ![c] = "marshal"]
      /\ call' = [call EXCEPT ![c] = [op |-> op, key |-> k, val |-> [id |-> k, version |-> v],
                                      st |-> "called", ok |-> FALSE, read |-> {}]]
      /\ UNCHANGED <<db, scratch, shared, looked, seen, dirty>>
  BY DEF Call, S!Call, Goto, IInv, TypeOK
<1>2. TypeOK'
  BY <1>1 DEF IInv, TypeOK, S!Values
<1>3. KeyIsOwn' /\ Values' /\ StrayedIsShort'
  BY <1>1 DEF IInv, TypeOK, KeyIsOwn, Holds, Values, StrayedIsShort
<1>4. Committing'
  BY <1>1 DEF IInv, TypeOK, Committing, Conflict, Own
<1>5. QED
  BY <1>2, <1>3, <1>4 DEF IInv

\* A key is marshalled over that of others: it is the same, or the memory is shared.
LEMMA MarshalStep == ASSUME IInv, NEW c \in Clients, MarshalKey(c) PROVE IInv'
<1>1. /\ pc[c] = "marshal" /\ pc' = [pc EXCEPT ![c] = "look"] /\ call[c].key \in Keys
      /\ UNCHANGED <<db, call, looked, seen, dirty>>
      /\ IF call[c].key \in Short
           THEN /\ scratch' = call[c].key
                /\ shared' = (shared \/ \E d \in Clients : Holds(d) /\ call[d].key # call[c].key)
           ELSE UNCHANGED <<scratch, shared>>
  BY DEF MarshalKey, Goto, IInv, TypeOK
<1>2. shared => shared'
  BY <1>1 DEF IInv, TypeOK
<1>3. TypeOK'
  <2>1. scratch' \in Short \cup {None} /\ shared' \in BOOLEAN
    BY <1>1 DEF IInv, TypeOK
  <2>2. QED
    BY <1>1, <2>1 DEF IInv, TypeOK
<1>4. KeyIsOwn'
  <2> SUFFICES ASSUME NEW d \in Clients, Holds(d)' PROVE scratch' \in Short /\ (~shared' => scratch' = call[d].key)
    BY <1>1 DEF KeyIsOwn
  <2>1. call[d].key \in Short /\ (d # c => Holds(d))
    BY <1>1 DEF Holds, IInv, TypeOK
  <2>2. QED
    BY <1>1, <1>2, <2>1 DEF IInv, KeyIsOwn
<1>5. Values' /\ StrayedIsShort'
  BY <1>1, <1>2 DEF IInv, TypeOK, Values, StrayedIsShort
<1>6. Committing'
  BY <1>1, <1>2 DEF IInv, TypeOK, Committing, Conflict, Own
<1>7. QED
  BY <1>3, <1>4, <1>5, <1>6 DEF IInv

LEMMA LookStep == ASSUME IInv, NEW c \in Clients, Look(c) PROVE IInv'
<1> DEFINE found == S!Reads(Request(c), db)
<1>1. /\ pc[c] = "look" /\ call[c].key \in Keys /\ Key(c) \in Keys /\ Request(c).op = call[c].op
      /\ Own(c) => Key(c) = call[c].key /\ Request(c) = call[c]
      /\ found \subseteq S!Values
  BY MemoryKey, ReadsType DEF Look, IInv, TypeOK
<1>2. CASE call[c].op \in {"get", "range"} \/ (call[c].op = "insert" /\ found # {})
  <2>1. /\ call' = [call EXCEPT ![c].st = "done", ![c].ok = TRUE, ![c].read = found]
        /\ pc' = [pc EXCEPT ![c] = "done"]
        /\ UNCHANGED <<db, scratch, shared, looked, seen, dirty>>
    BY <1>2 DEF Look, Goto
  <2>2. TypeOK'
    <3>1. call \in [Clients -> Calls]
      BY DEF IInv, TypeOK, Calls
    <3>2. call' \in [Clients -> Calls]
      BY <1>1, <2>1, <3>1, AnswerType
    <3>3. QED
      BY <1>1, <2>1, <3>2 DEF IInv, TypeOK, Calls
  <2>3. KeyIsOwn' /\ Values' /\ StrayedIsShort'
    BY <1>1, <2>1 DEF IInv, TypeOK, KeyIsOwn, Holds, Values, StrayedIsShort
  <2>4. Committing'
    BY <1>1, <2>1 DEF IInv, TypeOK, Committing, Conflict, Own
  <2>5. QED
    BY <2>2, <2>3, <2>4 DEF IInv
<1>3. CASE ~(call[c].op \in {"get", "range"} \/ (call[c].op = "insert" /\ found # {}))
  <2>1. /\ looked' = [looked EXCEPT ![c] = found]
        /\ seen' = [seen EXCEPT ![c] = IF call[c].op = "delete" THEN {} ELSE {Key(c)}]
        /\ dirty' = [dirty EXCEPT ![c] = {}]
        /\ pc' = [pc EXCEPT ![c] = "commit"]
        /\ UNCHANGED <<call, db, scratch, shared>>
    BY <1>3 DEF Look, Goto
  <2>2. TypeOK'
    BY <1>1, <2>1 DEF IInv, TypeOK
  <2>3. KeyIsOwn' /\ Values' /\ StrayedIsShort'
    BY <1>1, <2>1 DEF IInv, TypeOK, KeyIsOwn, Holds, Values, StrayedIsShort
  <2>4. call[c].op \in S!Updates /\ (call[c].op = "delete" => found = {})
    BY <1>1, <1>3 DEF IInv, TypeOK, S!Ops, S!Reads
  <2>5. Committing'
    BY <1>1, <1>3, <2>1, <2>4 DEF IInv, TypeOK, Committing, Conflict, Own
  <2>6. QED
    BY <2>2, <2>3, <2>5 DEF IInv
<1>4. QED
  BY <1>2, <1>3

\* A commit makes every other transaction that has read the key conflict, whoever
\* has asked for the key.
LEMMA CommitStep == ASSUME IInv, NEW c \in Clients, Commit(c) PROVE IInv'
<1> DEFINE written == IF call[c].op = "delete" THEN None ELSE call[c].val
<1>1. /\ pc[c] = "commit" /\ call[c].key \in Keys /\ Key(c) \in Keys /\ call[c].val \in S!Values
      /\ Key(c) # call[c].key => call[c].key \in Short /\ Key(c) \in Short /\ shared
      /\ db' = [db EXCEPT ![Key(c)] = written]
      /\ dirty' = [d \in Clients |-> dirty[d] \cup {Key(c)}]
      /\ call' = [call EXCEPT ![c].st = "done", ![c].ok = TRUE, ![c].read = looked[c]]
      /\ pc' = [pc EXCEPT ![c] = "done"]
      /\ UNCHANGED <<scratch, shared, looked, seen>>
  BY MemoryKey DEF Commit, Goto, IInv, TypeOK
<1>2. TypeOK'
  <2>1. call \in [Clients -> Calls] /\ looked[c] \in SUBSET S!Values
    BY DEF IInv, TypeOK, Calls
  <2>2. call' \in [Clients -> Calls]
    BY <1>1, <2>1, AnswerType
  <2>3. written \in S!Values \cup {None}
    BY <1>1
  <2>4. db' \in [Keys -> S!Values \cup {None}]
    BY <1>1, <2>3 DEF IInv, TypeOK
  <2>5. QED
    BY <1>1, <2>2, <2>4 DEF IInv, TypeOK, Calls
<1>3. KeyIsOwn' /\ Values'
  BY <1>1 DEF IInv, TypeOK, KeyIsOwn, Holds, Values
<1>4. StrayedIsShort'
  <2>1. call[c].val.id = call[c].key
    BY <1>1 DEF IInv, Values
  <2>2. \A k \in Keys : k # Key(c) => db'[k] = db[k]
    BY <1>1 DEF IInv, TypeOK
  <2>3. db'[Key(c)] # None => db'[Key(c)].id = call[c].key
    BY <1>1, <2>1 DEF IInv, TypeOK
  <2>4. QED
    BY <1>1, <2>2, <2>3 DEF IInv, StrayedIsShort
<1>5. ASSUME NEW d \in Clients, pc'[d] = "commit"
      PROVE  /\ d # c /\ call'[d] = call[d] /\ pc[d] = "commit" /\ call[d].key \in Keys
             /\ Own(d)' <=> Own(d)
             /\ ~Conflict(d)' => ~Conflict(d) /\ Key(c) \notin seen[d]
  BY <1>1, <1>5 DEF IInv, TypeOK, Conflict, Own
<1>6. Committing'
  <2> SUFFICES ASSUME NEW d \in Clients, pc'[d] = "commit", Own(d), ~Conflict(d)'
               PROVE  looked[d] = S!Reads(call[d], db')
    BY <1>1, <1>5 DEF IInv, Committing
  <2>1. looked[d] = S!Reads(call[d], db) /\ call[d].op \in S!Updates
    BY <1>5 DEF IInv, Committing
  <2>2. CASE call[d].op = "delete"
    BY <2>1, <2>2 DEF S!Reads
  <2>3. CASE call[d].op # "delete"
    <3>1. call[d].key # Key(c)
      BY <1>5, <2>3 DEF IInv, Committing
    <3>2. db'[call[d].key] = db[call[d].key]
      BY <1>1, <1>5, <3>1 DEF IInv, TypeOK
    <3>3. QED
      BY <2>1, <3>2, ReadsKey
  <2>4. QED
    BY <2>2, <2>3
<1>7. QED
  BY <1>2, <1>3, <1>4, <1>6 DEF IInv

LEMMA RestStep == ASSUME IInv, NEW c \in Clients, CommitFails(c) \/ Return(c) PROVE IInv'
<1>1. CASE CommitFails(c)
  <2>1. TypeOK'
    BY <1>1 DEF IInv, TypeOK, CommitFails, Goto
  <2>2. KeyIsOwn' /\ Values' /\ StrayedIsShort'
    BY <1>1 DEF IInv, TypeOK, KeyIsOwn, Holds, Values, StrayedIsShort, CommitFails, Goto
  <2>3. Committing'
    BY <1>1 DEF IInv, TypeOK, Committing, Conflict, Own, CommitFails, Goto
  <2>4. QED
    BY <2>1, <2>2, <2>3 DEF IInv
<1>2. CASE Return(c)
  <2>1. TypeOK'
    BY <1>2 DEF IInv, TypeOK, Return, S!Return, S!Quiet, S!Ops, S!Updates, Goto
  <2>2. KeyIsOwn' /\ Values' /\ StrayedIsShort'
    BY <1>2 DEF IInv, TypeOK, KeyIsOwn, Holds, Values, StrayedIsShort, Return, S!Return, Goto
  <2>3. Committing'
    BY <1>2 DEF IInv, TypeOK, Committing, Conflict, Own, Return, S!Return, Goto
  <2>4. QED
    BY <2>1, <2>2, <2>3 DEF IInv
<1>3. QED
  BY <1>1, <1>2

LEMMA NextInv == IInv /\ [Next]_vars => IInv'
<1> SUFFICES ASSUME IInv, [Next]_vars PROVE IInv'
  OBVIOUS
<1>1. CASE Next
  BY <1>1, CallStep, MarshalStep, LookStep, CommitStep, RestStep DEF Next, Step
<1>2. CASE UNCHANGED vars
  BY <1>2 DEF vars, IInv, TypeOK, KeyIsOwn, Holds, Values, Committing, Conflict, Own, StrayedIsShort
<1>3. QED
  BY <1>1, <1>2

THEOREM Invariance == Spec => []IInv
BY InitInv, NextInv, PTL DEF Spec

-----------------------------------------------------------------------------
(* Theorems *)

\* What is stored under an id is the manifest of that id, or that of another id
\* that was marshalled into the same memory, however requests overlap and however
\* many ids are short (db.go:46-50, session.go:94).
THEOREM StrayedStaysShort == Spec => []StrayedIsShort
<1>1. IInv => StrayedIsShort
  BY DEF IInv
<1>2. QED
  BY <1>1, Invariance, PTL

\* The converse of the finding: manifests only get under the ids of others when
\* two different short ids are in the prefix's memory at once (db.go:46-50).
THEOREM KeysStayTheirs == Spec /\ []~shared => []KeysAreTheirs
<1>1. IInv /\ ~shared => KeysAreTheirs
  BY DEF IInv, StrayedIsShort, KeysAreTheirs
<1>2. QED
  BY <1>1, Invariance, PTL

\* An update whose commit goes through has told the truth about what it replaced,
\* if its key was its own (db.go:138-151).
THEOREM CommitsStayFresh == Spec => []CommitsAreFresh
<1>1. IInv => CommitsAreFresh
  BY DEF IInv, Committing, CommitsAreFresh
<1>2. QED
  BY <1>1, Invariance, PTL

-----------------------------------------------------------------------------
(* The collection implements KeyStore *)

\* Whose key is another's may do no more than Stray.
LEMMA StrayImplements ==
    ASSUME IInv, NEW c \in Clients, Look(c) \/ Commit(c), ~Own(c) PROVE Stray(c)
<1>1. pc[c] \in {"look", "commit"} /\ call[c].key \in Short
  BY DEF Look, Commit, Own
<1>2. Key(c) \in Short
  BY <1>1 DEF IInv, KeyIsOwn, Holds, Key
<1>3. CASE Look(c)
  BY <1>3 DEF Look, Stray, IInv, TypeOK
<1>4. CASE Commit(c)
  BY <1>2, <1>4 DEF Commit, Stray, IInv, TypeOK
<1>5. QED
  BY <1>3, <1>4

\* A look that answers is the operation: it writes nothing.
LEMMA LookImplements ==
    ASSUME IInv, NEW c \in Clients, Look(c), Own(c) PROVE S!Effect(c) \/ UNCHANGED <<db, call>>
<1> DEFINE found == S!Reads(call[c], db)
<1>1. pc[c] = "look" /\ call[c].key \in Keys /\ Request(c) = call[c] /\ call[c].st = "called"
  BY MemoryKey DEF Look, IInv, TypeOK
<1>2. CASE call[c].op \in {"get", "range"} \/ (call[c].op = "insert" /\ found # {})
  <2>1. S!Writes(call[c], db) = db
    BY <1>1, <1>2, WritesNothing DEF IInv, TypeOK
  <2>2. /\ call' = [call EXCEPT ![c].st = "done", ![c].ok = TRUE, ![c].read = found]
        /\ UNCHANGED db
    BY <1>1, <1>2 DEF Look
  <2>3. QED
    BY <1>1, <2>1, <2>2 DEF S!Effect
<1>3. CASE ~(call[c].op \in {"get", "range"} \/ (call[c].op = "insert" /\ found # {}))
  BY <1>1, <1>3 DEF Look
<1>4. QED
  BY <1>2, <1>3

\* A commit is the operation: what was looked up is what it would read now.
LEMMA CommitImplements == ASSUME IInv, NEW c \in Clients, Commit(c), Own(c) PROVE S!Effect(c)
<1> DEFINE written == IF call[c].op = "delete" THEN None ELSE call[c].val
<1>1. /\ pc[c] = "commit" /\ call[c].key \in Keys /\ call[c].st = "called"
      /\ db' = [db EXCEPT ![call[c].key] = written]
      /\ call' = [call EXCEPT ![c].st = "done", ![c].ok = TRUE, ![c].read = looked[c]]
  BY MemoryKey DEF Commit, IInv, TypeOK
<1>2. /\ looked[c] = S!Reads(call[c], db) /\ call[c].op \in S!Updates
      /\ call[c].op = "insert" => looked[c] = {}
  BY <1>1 DEF IInv, Committing, Commit
<1>3. S!Writes(call[c], db) = [db EXCEPT ![call[c].key] = written]
  BY <1>1, <1>2, WritesCommit DEF IInv, TypeOK
<1>4. QED
  BY <1>1, <1>2, <1>3 DEF S!Effect

\* A failed commit is an update that fails: a deletion never does.
LEMMA FailureImplements == ASSUME IInv, NEW c \in Clients, CommitFails(c) PROVE S!Fails(c)
<1>1. pc[c] = "commit" /\ call[c].st = "called" /\ seen[c] # {}
  BY DEF CommitFails, Conflict, IInv, TypeOK
<1>2. call[c].op \in S!Updates \ {"delete"}
  BY <1>1 DEF IInv, Committing
<1>3. QED
  BY <1>1, <1>2 DEF CommitFails, S!Fails

LEMMA StepImplements ==
    IInv /\ [Next]_vars => [S!Next \/ \E c \in Clients : Stray(c)]_<<db, call>>
<1> DEFINE Strays == \E c \in Clients : Stray(c)
<1> SUFFICES ASSUME IInv, [Next]_vars PROVE S!Next \/ Strays \/ UNCHANGED <<db, call>>
  OBVIOUS
<1>1. ASSUME NEW c \in Clients, NEW op \in S!Ops, NEW k \in Keys, NEW v \in Versions,
             Call(c, op, k, v)
      PROVE  S!Next
  BY <1>1 DEF Call, S!Next
<1>2. ASSUME NEW c \in Clients, Step(c) PROVE S!Next \/ Strays \/ UNCHANGED <<db, call>>
  <2>1. CASE MarshalKey(c)
    BY <2>1 DEF MarshalKey
  <2>2. CASE Look(c)
    BY <2>2, LookImplements, StrayImplements DEF S!Next
  <2>3. CASE Commit(c)
    BY <2>3, CommitImplements, StrayImplements DEF S!Next
  <2>4. CASE CommitFails(c)
    BY <2>4, FailureImplements DEF S!Next
  <2>5. CASE Return(c)
    BY <2>5 DEF Return, S!Next
  <2>6. QED
    BY <1>2, <2>1, <2>2, <2>3, <2>4, <2>5 DEF Step
<1>3. CASE UNCHANGED vars
  BY <1>3 DEF vars
<1>4. QED
  BY <1>1, <1>2, <1>3 DEF Next

\* Transactions that overlap are as good as operations done one at a time, but for
\* those whose short keys are in the same memory (db.go:46-50, 66-176).
THEOREM CollectionIsKeyStore == Spec => ImplementsKeyStore
<1>1. Init => S!Init
  BY DEF Init
<1>2. QED
  BY <1>1, Invariance, StepImplements, PTL DEF Spec, ImplementsKeyStore

\* Where no two different short keys are ever in memory at once, as with ids that
\* are longer than three bytes, nothing strays.
THEOREM UnsharedIsKeyStore == Spec /\ []~shared => S!Spec
<1>1. ~shared => ~\E c \in Clients : Stray(c)
  BY DEF Stray, Own
<1>2. QED
  BY <1>1, CollectionIsKeyStore, PTL DEF ImplementsKeyStore, S!Spec
=============================================================================

----------------------------- MODULE Collection -----------------------------
(***************************************************************************)
(* A collection of the database, used by many requests at once:            *)
(* pkg/session/db.go on top of badger, whose transactions are external.    *)
(*                                                                         *)
(* A transaction reads what was committed when it began, and its commit    *)
(* fails when a key it has read was written meanwhile (no one retries).    *)
(* MarshalKey appends the key to the collection's prefix: a key that fits  *)
(* into what is left of the prefix's array (three bytes after "jobs:")     *)
(* is written there, into memory that all requests share, and is read      *)
(* again when the transaction looks up the key and when it commits.  The   *)
(* keys of Short are of that kind, and nothing keeps them few: while two   *)
(* calls hold the memory with different keys, one of them works on the key *)
(* of the other.  Clear, which nothing uses and which is no atomic         *)
(* operation, is left out; Has and Count read as Get and Range.            *)
(***************************************************************************)
CONSTANTS Keys, Versions, Clients, None, Short

ASSUME ShortAssumption == Short \subseteq Keys
ASSUME NoneAssumption == None \notin Keys /\ None \notin [id : Keys, version : Versions]

VARIABLES db,       \* what is committed
          call,     \* each client's operation, and what it has answered
          pc,       \* where its function is
          scratch,  \* the short key that was marshalled last
          shared,   \* history: two calls have held the memory with different keys
          looked,   \* what the transaction has found: {} or the value
          seen,     \* the keys it has read
          dirty     \* the keys that others have committed since it began

vars == <<db, call, pc, scratch, shared, looked, seen, dirty>>

S == INSTANCE KeyStore WITH store <- db

TypeOK ==
    /\ db \in [Keys -> S!Values \cup {None}]
    /\ call \in [Clients -> [op : S!Ops, key : Keys \cup {None}, val : S!Values \cup {None},
                             st : {"idle", "called", "done"}, ok : BOOLEAN,
                             read : SUBSET S!Values]]
    /\ pc \in [Clients -> {"idle", "marshal", "look", "commit", "done"}]
    /\ \A c \in Clients :
         /\ pc[c] = "idle" <=> call[c].st = "idle"
         /\ pc[c] = "done" <=> call[c].st = "done"
         /\ pc[c] # "idle" => call[c].key \in Keys /\ call[c].val \in S!Values
    /\ scratch \in Short \cup {None} /\ shared \in BOOLEAN
    /\ looked \in [Clients -> SUBSET S!Values]
    /\ seen \in [Clients -> SUBSET Keys]
    /\ dirty \in [Clients -> SUBSET Keys]

Init ==
    /\ S!Init
    /\ pc = [c \in Clients |-> "idle"]
    /\ scratch = None /\ shared = FALSE
    /\ looked = [c \in Clients |-> {}]
    /\ seen = [c \in Clients |-> {}]
    /\ dirty = [c \in Clients |-> {}]

Goto(c, l) == pc' = [pc EXCEPT ![c] = l]

-----------------------------------------------------------------------------
Call(c, op, k, v) ==
    /\ S!Call(c, op, k, v)
    /\ Goto(c, "marshal")
    /\ UNCHANGED <<scratch, shared, looked, seen, dirty>>

\* A call that has marshalled a short key and may read it again.
Holds(c) == pc[c] \in {"look", "commit"} /\ call[c].key \in Short

MarshalKey(c) ==
    /\ pc[c] = "marshal"
    /\ IF call[c].key \in Short
         THEN /\ scratch' = call[c].key
              /\ shared' = (shared \/ \E d \in Clients : Holds(d) /\ call[d].key # call[c].key)
         ELSE UNCHANGED <<scratch, shared>>
    /\ Goto(c, "look")
    /\ UNCHANGED <<db, call, looked, seen, dirty>>

\* Faulty variant: long keys are written into memory that requests share, too.
KeyInScratch(c) == IF scratch # None THEN scratch ELSE call[c].key

\* What the bytes that MarshalKey returned say now.
Key(c) == IF call[c].key \in Short THEN scratch ELSE call[c].key

\* The operation on the key that it finds in memory.
Request(c) == [call[c] EXCEPT !.key = Key(c)]

\* A transaction begins, and reads; without a write it has nothing to commit.
Look(c) ==
    LET found == S!Reads(Request(c), db) IN
    /\ pc[c] = "look"
    /\ IF call[c].op \in {"get", "range"} \/ (call[c].op = "insert" /\ found # {})
       THEN /\ call' = [call EXCEPT ![c].st = "done", ![c].ok = TRUE, ![c].read = found]
            /\ Goto(c, "done")
            /\ UNCHANGED <<looked, seen, dirty>>
       ELSE /\ looked' = [looked EXCEPT ![c] = found]
            /\ seen' = [seen EXCEPT ![c] = IF call[c].op = "delete" THEN {} ELSE {Key(c)}]
            /\ dirty' = [dirty EXCEPT ![c] = {}]
            /\ Goto(c, "commit")
            /\ UNCHANGED call
    /\ UNCHANGED <<db, scratch, shared>>

\* Faulty variant: conflicts go unnoticed.
NoConflict(c) == FALSE

Conflict(c) == seen[c] \cap dirty[c] # {}

Commit(c) ==
    /\ pc[c] = "commit" /\ ~Conflict(c)
    /\ db' = [db EXCEPT ![Key(c)] = IF call[c].op = "delete" THEN None ELSE call[c].val]
    /\ dirty' = [d \in Clients |-> dirty[d] \cup {Key(c)}]
    /\ call' = [call EXCEPT ![c].st = "done", ![c].ok = TRUE, ![c].read = looked[c]]
    /\ Goto(c, "done")
    /\ UNCHANGED <<scratch, shared, looked, seen>>

\* lo.Must0 panics, and the request fails.
CommitFails(c) ==
    /\ pc[c] = "commit" /\ Conflict(c)
    /\ call' = [call EXCEPT ![c].st = "done"]
    /\ Goto(c, "done")
    /\ UNCHANGED <<db, scratch, shared, looked, seen, dirty>>

\* What the transaction has read is of no further use.
Return(c) ==
    /\ S!Return(c)
    /\ Goto(c, "idle")
    /\ looked' = [looked EXCEPT ![c] = {}]
    /\ seen' = [seen EXCEPT ![c] = {}]
    /\ dirty' = [dirty EXCEPT ![c] = {}]
    /\ UNCHANGED <<scratch, shared>>

Step(c) == MarshalKey(c) \/ Look(c) \/ Commit(c) \/ CommitFails(c) \/ Return(c)

Next == \E c \in Clients :
    \/ \E op \in S!Ops, k \in Keys, v \in Versions : Call(c, op, k, v)
    \/ Step(c)

Spec == Init /\ [][Next]_vars

-----------------------------------------------------------------------------
(* Properties *)

\* What is stored under an id is the manifest of that id: a restart revives each
\* job under its own name (session.go:51, 94; db.go:45).  The code does not keep
\* to that: two requests with short ids may store one's manifest as the other's.
KeysAreTheirs == \A k \in Keys : db[k] # None => db[k].id = k

\* What the code does keep to, whatever is marshalled into the prefix's memory at
\* once: an id that does not fit there has its own manifest, one that does has its
\* own until two such ids have been there together, and then that of another of
\* them (db.go:46-50, 136).
StrayedIsShort ==
    \A k \in Keys : db[k] # None =>
        IF shared /\ k \in Short THEN db[k].id \in Short ELSE db[k].id = k

\* Nobody else has meddled with the key of c.
Own(c) == shared => call[c].key \notin Short

\* An update whose commit goes through has told the truth about what it replaced:
\* nobody has written the key since it was read (db.go:138-151).
CommitsAreFresh ==
    \A c \in Clients :
        pc[c] = "commit" /\ ~Conflict(c) /\ Own(c) => looked[c] = S!Reads(call[c], db)

\* A call whose short key was overwritten answers what it likes and changes what
\* is stored under short keys, but nothing of others.
Stray(c) ==
    /\ ~Own(c)
    /\ \A d \in Clients \ {c} : call'[d] = call[d]
    /\ \A k \in Keys \ Short : db'[k] = db[k]

\* Interleaved transactions are as good as operations done one at a time: all of
\* them until two different short keys have been in memory at once, and those on
\* long keys for ever (db.go:46-50, 66-176).
ImplementsKeyStore == S!Init /\ [][S!Next \/ \E c \in Clients : Stray(c)]_<<db, call>>
=============================================================================

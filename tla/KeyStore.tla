------------------------------ MODULE KeyStore ------------------------------
(***************************************************************************)
(* What a collection of the database promises (pkg/session/db.go): a map   *)
(* whose operations take effect at one instant between call and return, or *)
(* fail without an effect.                                                 *)
(***************************************************************************)
CONSTANTS Keys, Versions, Clients, None

Values == [id : Keys, version : Versions]   \* what is stored says whose it is
Updates == {"insert", "upsert", "replace", "delete"}
Ops == Updates \cup {"get", "range"}

VARIABLES store,   \* the value of each key, or None
          call     \* each client's operation, and what it has answered

Quiet == [op |-> "get", key |-> None, val |-> None, st |-> "idle", ok |-> FALSE, read |-> {}]

\* What an operation reports, and what it leaves.
Reads(r, s) ==
    CASE r.op = "range" -> {s[k] : k \in Keys} \ {None}
      [] r.op = "delete" -> {}
      [] OTHER -> {s[r.key]} \ {None}

Writes(r, s) ==
    CASE r.op \in {"upsert", "replace"} -> [s EXCEPT ![r.key] = r.val]
      [] r.op = "insert" -> [s EXCEPT ![r.key] = IF @ = None THEN r.val ELSE @]
      [] r.op = "delete" -> [s EXCEPT ![r.key] = None]
      [] OTHER -> s

Init == store = [k \in Keys |-> None] /\ call = [c \in Clients |-> Quiet]

Call(c, op, k, v) ==
    /\ call[c].st = "idle"
    /\ call' = [call EXCEPT ![c] = [op |-> op, key |-> k, val |-> [id |-> k, version |-> v],
                                    st |-> "called", ok |-> FALSE, read |-> {}]]
    /\ UNCHANGED store

Effect(c) ==
    /\ call[c].st = "called"
    /\ call' = [call EXCEPT ![c].st = "done", ![c].ok = TRUE,
                            ![c].read = Reads(call[c], store)]
    /\ store' = Writes(call[c], store)

Fails(c) ==
    /\ call[c].st = "called" /\ call[c].op \in Updates \ {"delete"}
    /\ call' = [call EXCEPT ![c].st = "done"]
    /\ UNCHANGED store

Return(c) ==
    /\ call[c].st = "done"
    /\ call' = [call EXCEPT ![c] = Quiet]
    /\ UNCHANGED store

Next == \E c \in Clients :
    \/ \E op \in Ops, k \in Keys, v \in Versions : Call(c, op, k, v)
    \/ Effect(c) \/ Fails(c) \/ Return(c)

Spec == Init /\ [][Next]_<<store, call>>
=============================================================================

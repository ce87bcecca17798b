------------------------------ MODULE Manifest ------------------------------
(***************************************************************************)
(* Manifests on their way from the command line to the database and back:  *)
(* pkg/automarshal/registry.go, with the kinds that pkg/job and pkg/task   *)
(* register, and the command line of pkg/client/main.go.                   *)
(*                                                                         *)
(* A text the user typed, or the content of a configuration file, is read  *)
(* by the client; the value is marshalled for the RPC and read again by    *)
(* the daemon, which stores what it marshals to and reads that again when  *)
(* it restarts.  Two registries share the code; a kind is one character:   *)
(*             "o"    "y"    "b"    "l"                    "q"             *)
(*   triggers  on     every  boot   any                                    *)
(*   tasks     run    wait   noop   parallel and the like  ordered         *)
(* and "m" is "many", which no registry knows.  A value has a kind, an ID  *)
(* and a body: a name, a duration or a list of further values.             *)
(***************************************************************************)
EXTENDS ArgReader

CONSTANTS Argvs,     \* the options after the command, each a text
          Texts,     \* manifests typed as one text
          Configs,   \* what configuration files evaluate to
          MaxTrips   \* bound: how often a value is marshalled and read again

ASSUME MaxTripsAssumption == MaxTrips \in Nat

VARIABLES registry,  \* which of the two
          input,     \* what the user gave: <<"argv", ...>>, <<"text", ...>>, <<"config", ...>>
          options,   \* how reading the options ended, and what was read
          stage,     \* where the manifest is
          value,     \* what it has been read as
          trips      \* how often it has been marshalled since

vars == <<registry, input, options, stage, value, trips>>

-----------------------------------------------------------------------------
(* The command line: client/main.go, Run *)

Escaped(s) ==
    LET f[i \in 0..Len(s)] == IF i = 0 THEN <<>>
                              ELSE f[i - 1] \o (IF s[i] = "\"" THEN <<"\\", "\"">> ELSE <<s[i]>>)
    IN f[Len(s)]

Index(s, c) == CHOOSE i \in 1..(Len(s) + 1) : /\ i <= Len(s) => s[i] = c
                                              /\ \A j \in 1..(i - 1) : s[j] # c

\* An option with a space is quoted, from behind its '=' if that comes first.
Option(arg) ==
    LET eq == Index(arg, "=")
        sp == Index(arg, " ")
        n  == IF eq < sp THEN eq ELSE 0 IN
    IF sp > Len(arg) THEN arg \o <<" ">>
    ELSE SubSeq(arg, 1, n) \o <<"\"">> \o Escaped(After(arg, n)) \o <<"\"", " ">>

ArgString(argv) ==
    LET f[i \in 0..Len(argv)] ==
            IF i = 0 THEN <<>>
            ELSE f[i - 1] \o (IF Starts(argv[i], "-") THEN Option(argv[i]) ELSE <<>>)
    IN f[Len(argv)]

-----------------------------------------------------------------------------
(* Kinds *)

Simple == {"o", "y", "b"}
Lists  == IF registry = "tasks" THEN {"l", "q"} ELSE {"l"}
Kinds  == Simple \cup Lists

Bad == [kind |-> "", id |-> <<>>, body |-> <<>>]   \* an error
Value(id, body) == [kind |-> id.kind, id |-> id.id, body |-> body]

Trim(s) ==
    LET t == Skipspace(s)
        n == CHOOSE k \in 0..Len(t) : /\ \A i \in (k + 1)..Len(t) : t[i] = " "
                                      /\ k > 0 => t[k] # " " IN
    SubSeq(t, 1, n)

\* ID.UnmarshalText: "kind:id args"; what is not a single character is no kind.
IDOf(text) ==
    LET ids == SubSeq(text, 1, Index(text, " ") - 1)
        c   == Index(ids, ":")
        k   == SubSeq(ids, 1, c - 1) IN
    [kind |-> IF Len(k) = 1 THEN k[1] ELSE "none",
     id   |-> After(ids, c),
     args |-> Trim(After(text, Len(ids)))]

\* Faulty variant: the label instead of the kind and the ID.
IDLabel(v) == IF v.id = <<>> THEN <<v.kind>> ELSE v.id

\* ID.String.
IDString(v) == IF v.id = <<>> THEN <<v.kind>> ELSE <<v.kind, ":">> \o v.id

\* A duration stands for itself as a text, "1s" or "1u"; a number is one of
\* microseconds (only whole numbers are looked at).
IsWhole(s) == IsDigits(Unsigned(s))
IsDuration(s) ==
    Len(s) > 1 /\ s[Len(s)] \in {"s", "u"} /\ IsWhole(SubSeq(s, 1, Len(s) - 1))
Zero == <<>>

\* The kinds that implement UnmarshalInline, and what that makes of a text.
Inline(id) ==
    \/ id.kind = "o"
    \/ id.kind = "b" /\ registry = "triggers"
    \/ id.kind = "y" /\ IsDuration(id.args)
InlineBody(id) == IF id.kind = "b" THEN <<>> ELSE id.args

\* TriggerOn.WithDefaults: the name of an event is the trigger's ID.
TriggerDefaults(id, body) ==
    IF id.kind = "o" /\ registry = "triggers" /\ body = <<>> THEN id.id ELSE body

Field == [o |-> <<"n">>, y |-> <<"d">>, l |-> <<"l">>, q |-> <<"l">>]

-----------------------------------------------------------------------------
(* Registry.Unmarshal: the set of the values it may yield, since the keys   *)
(* of an object are visited in any order.                                   *)

RECURSIVE Read(_), ReadList(_), Make(_, _), Decode(_, _, _)

ReadList(js) ==
    IF js = <<>> THEN {<<>>}
    ELSE {<<v>> \o vs : v \in Read(Head(js)), vs \in ReadList(Tail(js))}

\* json.Unmarshal into a body that has been filled in so far.
Decode(id, body, msg) ==
    LET f == Field[id.kind]
        j == msg[2][f] IN
    CASE msg[1] # "obj" -> {Bad}
      [] msg[1] = "obj" /\ (id.kind = "b" \/ f \notin DOMAIN msg[2]) ->
            {Value(id, TriggerDefaults(id, body))}
      [] OTHER ->
            CASE id.kind = "o" /\ j[1] = "str" -> {Value(id, TriggerDefaults(id, j[2]))}
              [] id.kind = "y" /\ j[1] = "str" /\ IsDuration(j[2]) -> {Value(id, j[2])}
              [] id.kind = "y" /\ j[1] = "num" /\ IsWhole(j[2]) -> {Value(id, j[2] \o <<"u">>)}
              [] id.kind \in Lists /\ j[1] = "list" ->
                    {IF \E i \in 1..Len(vs) : vs[i] = Bad THEN Bad ELSE Value(id, vs) :
                        vs \in ReadList(j[2])}
              [] OTHER -> {Bad}

\* The factory of a kind: its inline text, or else options under the message.
Make(id, msg) ==
    LET Over(set) == IF set.end # "ok" \/ msg[1] # "obj" THEN {Bad}
                     ELSE Decode(id, <<>>, <<"obj", msg[2] @@ set.val[2]>>) IN
    CASE id.args = <<>> -> Decode(id, <<>>, msg)
      [] id.args # <<>> /\ Inline(id) -> Decode(id, InlineBody(id), msg)
      [] id.args # <<>> /\ ~Inline(id) -> Over(Set(id.args))

\* The factories that RegisterNonObject gives '[': a list of triggers is of a
\* kind of its own; one of tasks is a pipe, of the mode that an empty one in
\* front of it names.
ListValue(vs) ==
    CASE \E i \in 1..Len(vs) : vs[i] = Bad -> Bad
      [] registry = "triggers" -> [kind |-> "m", id |-> <<>>, body |-> vs]
      [] registry = "tasks" /\ vs = <<>> -> [kind |-> "b", id |-> <<>>, body |-> <<>>]
      [] OTHER -> IF vs[1].kind \in Lists /\ vs[1].body = <<>>
                  THEN [kind |-> vs[1].kind, id |-> <<>>, body |-> Tail(vs)]
                  ELSE [kind |-> "l", id |-> <<>>, body |-> vs]

Read(json) ==
    LET known == {k \in DOMAIN json[2] : IDOf(k).kind \in Kinds} IN
    CASE json[1] = "str" ->
            CASE Starts(json[2], "@") ->
                    IF Tail(json[2]) \in DOMAIN Files THEN Read(Files[Tail(json[2])]) ELSE {Bad}
              [] ~Starts(json[2], "@") /\ IDOf(json[2]).kind \in Kinds ->
                    Make(IDOf(json[2]), Nothing)
              [] OTHER -> {Bad}
      [] json[1] = "list" ->
            {IF \E i \in 1..Len(vs) : vs[i] = Bad THEN Bad ELSE ListValue(vs) : vs \in ReadList(json[2])}
      [] json[1] = "obj" ->
            IF known = {} THEN {Bad} ELSE UNION {Make(IDOf(k), json[2][k]) : k \in known}
      [] OTHER -> {Bad}

\* Registry.Marshal, with the JSON of the struct that the kind stands for.
RECURSIVE Marshal(_)
Marshal(v) ==
    LET body == CASE v.kind = "o" -> <<"str", v.body>>
                  [] v.kind = "y" -> <<"str", v.body>>
                  [] OTHER -> <<"list", [i \in 1..Len(v.body) |-> Marshal(v.body[i])]>>
        msg  == CASE v.kind = "b" -> <<>>
                  [] v.kind = "y" /\ v.body = Zero -> <<>>
                  [] v.kind = "m" -> <<"l">> :> body
                  [] OTHER -> Field[v.kind] :> body IN
    <<"obj", IDString(v) :> <<"obj", msg>>>>

-----------------------------------------------------------------------------
(* The way of a manifest *)

Launch == <<"a">>   \* the key of the launch trigger

Stages == {"typed", "plain", "rejected", "sent", "stored", "lost"}

\* The way is well formed, and Bad is never taken for a value.
TypeOK ==
    /\ registry \in {"triggers", "tasks"}
    /\ stage \in Stages
    /\ trips \in 0..MaxTrips
    /\ options.end \in {"ok", "err"}
    /\ DOMAIN value = {"kind", "id", "body"}
    /\ stage \in {"sent", "stored"} => value.kind \in Kinds \cup (IF registry = "tasks" THEN {} ELSE {"m"})

Init ==
    /\ \/ registry = "triggers" /\ input \in {<<"argv", a>> : a \in Argvs}
       \/ registry \in {"triggers", "tasks"} /\
          input \in {<<"text", t>> : t \in Texts} \cup {<<"config", c>> : c \in Configs}
    /\ options = Got(Nothing, <<>>)
    /\ stage = "typed" /\ value = Bad /\ trips = 0

\* What the client has to decode as a trigger or a task, if anything.
Given(opts) ==
    CASE input[1] = "text" -> {<<"str", input[2]>>}
      [] input[1] = "config" -> {input[2]}
      [] input[1] = "argv" ->
            {opts.val[2][k] : k \in {Launch} \cap (IF opts.end = "ok" THEN DOMAIN opts.val[2] ELSE {})}

\* addCommand's reader and addCreate: a manifest that is no good is not sent.
ClientReads ==
    /\ stage = "typed"
    /\ options' = IF input[1] = "argv" THEN Unmarshal(ArgString(input[2])) ELSE options
    /\ \/ \E json \in Given(options') : \E v \in Read(json) :
            value' = v /\ stage' = IF v = Bad THEN "rejected" ELSE "sent"
       \/ /\ Given(options') = {} /\ value' = value
          /\ stage' = IF options'.end = "ok" THEN "plain" ELSE "rejected"
    /\ UNCHANGED <<registry, input, trips>>

\* The request is marshalled by the client and unmarshalled by the codec; the
\* daemon stores the manifest.  Or the daemon unmarshals what is stored.
Travel(from, failed) ==
    /\ stage = from /\ trips < MaxTrips
    /\ trips' = trips + 1
    /\ value' \in Read(Marshal(value))
    /\ stage' = IF value' = Bad THEN failed ELSE "stored"
    /\ UNCHANGED <<registry, input, options>>

DaemonReads == Travel("sent", "rejected")
Revive      == Travel("stored", "lost")

Next == ClientReads \/ DaemonReads \/ Revive

Spec == Init /\ [][Next]_vars

-----------------------------------------------------------------------------
(* Properties *)

\* The options the reader is written for (registry.go:26, "a=name b=5.0 id=string
\* id="string 2""): a key, '=', and a name, a number, or anything with a space.
Key(arg)  == SubSeq(arg, 3, Index(arg, "=") - 1)
Typed(arg) == After(arg, Index(arg, "="))
IsName(s) == s # <<>> /\ s[1] \in Alpha /\ Span(s, identifierOk) = Len(s)
IsQuotable(s) == \E i \in 1..Len(s) : s[i] = " " /\ \A j \in 1..Len(s) : s[j] # "\\"
IsDocumented(arg) ==
    /\ Len(arg) > 4 /\ arg[1] = "-" /\ arg[2] = "-" /\ Index(arg, "=") <= Len(arg)
    /\ IsName(Key(arg)) /\ \A i \in 1..Len(Key(arg)) : Key(arg)[i] \in Alpha
    /\ IsName(Typed(arg)) \/ IsWhole(Typed(arg)) \/ IsQuotable(Typed(arg))

Meaning(argv) ==
    [k \in {Key(argv[i]) : i \in 1..Len(argv)} |->
        LET last == CHOOSE i \in 1..Len(argv) :
                        Key(argv[i]) = k /\ \A j \in (i + 1)..Len(argv) : Key(argv[j]) # k
            s == Typed(argv[last]) IN
        IF IsWhole(s) THEN <<"num", s>> ELSE <<"str", s>>]

\* Whatever options of these forms the user types, in any number and order, the
\* client reads each as it was typed: quotes inside a quoted text, dashes, colons
\* and numbers do not run into what follows (main.go:195, reader.go:110).
OptionsArrive ==
    stage # "typed" /\ input[1] = "argv" /\ (\A i \in 1..Len(input[2]) : IsDocumented(input[2][i])) =>
        options.end = "ok" /\ options.val = <<"obj", Meaning(input[2])>>

\* A manifest reaches the daemon as the client showed it, or is refused; and what
\* the daemon has stored it can read again, as the same, at every restart, although
\* kinds, IDs, inline texts and defaults are read anew each time, and although a
\* configuration with several known keys is read as any one (registry.go:181-212).
StoredRevives ==
    [][(stage \in {"sent", "stored"}) =>
         value' = value \/ (stage = "sent" /\ stage' = "rejected")]_vars
=============================================================================

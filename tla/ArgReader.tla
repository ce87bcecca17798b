----------------------------- MODULE ArgReader -----------------------------
(***************************************************************************)
(* The reader of options and inline manifests: pkg/automarshal/reader.go.  *)
(*                                                                         *)
(* A text is a sequence of characters, of which Alpha, Digits and the      *)
(* punctuation the reader looks at are enough.  Every operator reads at    *)
(* the front of a text and yields how it ended ("ok", "eof" or "err"),     *)
(* the value it read, and the rest, which is where pos then is.  A value   *)
(* is tagged with its JSON type; an object is a function on its keys.      *)
(***************************************************************************)
EXTENDS Naturals, Sequences, TLC

CONSTANT Files    \* what the file of each path contains: an object

Alpha  == {"a", "b", "e", "l", "m", "o", "q", "s", "u", "y"}
Digits == {"1"}
identifierOkFirst == Alpha
identifierOk == Alpha \cup Digits \cup {"_", "-", ":", "$"}
numericRunes == Digits \cup {"-", "+", ".", "e"}
Quotes == {"\"", "'"}

After(s, n) == SubSeq(s, n + 1, Len(s))

\* How many characters at the front of s are of class C: TakeAnyN.
Span(s, C) ==
    CHOOSE n \in 0..Len(s) : /\ \A i \in 1..n : s[i] \in C
                             /\ n < Len(s) => s[n + 1] \notin C

Skipspace(s) == After(s, Span(s, {" "}))

\* TakeIf and Peek, where spaces have been skipped.
Starts(s, c) == s # <<>> /\ Head(s) = c

Got(v, rest)  == [end |-> "ok", val |-> v, rest |-> rest]
Fail(e, rest) == [end |-> e, val |-> <<>>, rest |-> rest]

\* What follows a reader, unless it has failed: "if err != nil { return }".
Then(r, Continue(_)) == IF r.end = "ok" THEN Continue(r) ELSE r

\* The text up to the quote q, with what a backslash precedes taken as it is.
RECURSIVE Unquote(_, _, _)
Unquote(q, s, text) ==
    CASE s = <<>> -> Fail("eof", s)
      [] Starts(s, "\\") -> IF Len(s) = 1 THEN Fail("eof", <<>>)
                            ELSE Unquote(q, After(s, 2), Append(text, s[2]))
      [] Starts(s, q) -> Got(<<"str", text>>, Tail(s))
      [] OTHER -> Unquote(q, Tail(s), Append(text, Head(s)))

Quoted(q, s) == Unquote(q, s, <<>>)

\* Faulty variant: the colon ends an identifier.
IDNoColon(tile, s) ==
    LET t == Skipspace(s)
        n == Span(t, identifierOk \ {":"}) IN
    IF t = <<>> \/ t[1] \notin identifierOkFirst THEN Fail("eof", t)
    ELSE Got(<<"str", [i \in 1..n |-> IF tile /\ t[i] = "-" THEN "_" ELSE t[i]]>>, After(t, n))

\* An identifier; a key (tile) has its dashes replaced.  Whatever cannot begin
\* one is taken for the end of the input.
ID(tile, s) ==
    LET t == Skipspace(s)
        n == Span(t, identifierOk) IN
    IF t = <<>> \/ t[1] \notin identifierOkFirst THEN Fail("eof", t)
    ELSE Got(<<"str", [i \in 1..n |-> IF tile /\ t[i] = "-" THEN "_" ELSE t[i]]>>, After(t, n))

\* strconv.ParseFloat of what consists of numericRunes.
IsDigits(s) == s # <<>> /\ \A i \in 1..Len(s) : s[i] \in Digits
Unsigned(s) == IF s # <<>> /\ Head(s) \in {"-", "+"} THEN Tail(s) ELSE s
IsFloat(s) ==
    LET u == Unsigned(s)
        n == Span(u, Digits \cup {"."}) IN
    /\ \E i \in 1..n : u[i] \in Digits
    /\ \A i, j \in 1..n : u[i] = "." /\ u[j] = "." => i = j
    /\ n < Len(u) => u[n + 1] = "e" /\ IsDigits(Unsigned(After(u, n + 1)))

Number(s) ==
    LET n == Span(s, numericRunes)
        text == SubSeq(s, 1, n) IN
    IF IsFloat(text) THEN Got(<<"num", text>>, After(s, n)) ELSE Fail("err", After(s, n))

\* The path after '@': quoted, or up to the next space, which there must be.
TakePath(s) ==
    LET t == Skipspace(s)
        n == CHOOSE k \in 0..Len(t) : /\ \A i \in 1..k : t[i] # " "
                                      /\ k < Len(t) => t[k + 1] = " " IN
    CASE t # <<>> /\ t[1] \in Quotes -> Quoted(t[1], Tail(t))
      [] n = Len(t) -> Fail("eof", <<>>)
      [] OTHER -> Got(<<"str", SubSeq(t, 1, n)>>, After(t, n))

TakeFile(s) ==
    Then(TakePath(s), LAMBDA p : IF p.val[2] \in DOMAIN Files THEN Got(Files[p.val[2]], p.rest)
                                 ELSE Fail("err", p.rest))

RECURSIVE AnyValue(_), Object(_, _), Array(_, _)

\* The value after the separator k; a separator that is missing is an error,
\* also at the end of the input.
Assign(k, s) ==
    LET t == Skipspace(s) IN
    IF Starts(t, k) THEN AnyValue(Tail(t)) ELSE Fail("err", t)

Object(s, res) ==
    LET t == Skipspace(s)
        Member(key) == Then(Assign(":", key.rest),
                            LAMBDA val : Object(val.rest, (key.val[2] :> val.val) @@ res)) IN
    IF Starts(t, "}") THEN Got(<<"obj", res>>, Tail(t)) ELSE Then(ID(TRUE, t), Member)

Array(s, res) ==
    LET t == Skipspace(s) IN
    CASE t = <<>> -> Fail("eof", t)
      [] Starts(t, "]") -> Got(<<"list", res>>, Tail(t))
      [] OTHER -> Then(AnyValue(t), LAMBDA val : Array(val.rest, Append(res, val.val)))

\* Object's own '@': the members are added to those of the file.
Members(s) ==
    LET t == Skipspace(s) IN
    IF Starts(t, "@") THEN Then(TakeFile(Tail(t)), LAMBDA f : Object(f.rest, f.val[2]))
    ELSE Object(t, <<>>)

AnyValue(s) ==
    LET t == Skipspace(s) IN
    CASE t = <<>> -> Fail("eof", t)
      [] Starts(t, "{") -> Members(Tail(t))
      [] Starts(t, "[") -> Array(Tail(t), <<>>)
      [] t # <<>> /\ t[1] \in Quotes -> Quoted(t[1], Tail(t))
      [] t # <<>> /\ t[1] \in Digits \cup {"-", "+", "."} -> Number(t)
      [] t # <<>> /\ t[1] \in identifierOkFirst -> ID(FALSE, t)
      [] OTHER -> Fail("err", Tail(t))

\* Options, each with up to two dashes, until something is no key; a value that
\* the input ends in makes its key a flag and, if there is none, the argument.
RECURSIVE Pairs(_, _)
Pair(key, val, res) ==
    CASE val.end = "ok" -> Pairs(val.rest, (key.val[2] :> val.val) @@ res)
      [] val.end = "err" -> val
      [] val.end = "eof" ->
            Got(<<"obj", (key.val[2] :> <<"bool", TRUE>>) @@ res
                         @@ (<<"args">> :> <<"list", <<key.val>>>>)>>, val.rest)

PairsFrom(key, res) ==
    IF key.end = "eof" THEN Got(<<"obj", res>>, key.rest)
    ELSE Pair(key, Assign("=", key.rest), res)

Dash(s) == IF Starts(s, "-") THEN Tail(s) ELSE s
Pairs(s, res) == PairsFrom(ID(TRUE, Dash(Skipspace(Dash(Skipspace(s))))), res)

Set(s) ==
    LET t == Skipspace(s) IN
    CASE Starts(t, "@") -> TakeFile(Tail(t))
      [] Starts(t, "{") -> Members(Tail(t))
      [] OTHER -> Pairs(t, <<>>)

\* Unmarshal into a value: the end of the input is no error, whatever it cut
\* off; then there is nothing to decode.
Nothing == <<"obj", <<>>>>
OrNothing(r) == IF r.end = "eof" THEN Got(Nothing, r.rest) ELSE r
Unmarshal(s) == OrNothing(Set(s))
=============================================================================
